---- MODULE Spec2Model ----
(***************************************************************************)
(* cejson: the incremental (chunk-fed) JSON parser of cejson.h, its node   *)
(* arena and the navigation functions, as a state machine.                 *)
(*                                                                         *)
(* A byte is a one-character string; Code gives its numeric value where    *)
(* the program computes with it (the key hash).  The logical stream is the *)
(* concatenation of the chunks handed to json_feed; node offsets index it  *)
(* from 0 as in the C code, TLA+ sequences index from 1.                   *)
(***************************************************************************)
EXTENDS Integers, Sequences, FiniteSets, TLC

VARIABLES
    p,              \* the JsonParser struct (scalar fields)
    nodes,          \* the caller's JsonNode array, index 0 .. nodes_cap-1
    stack,          \* the caller's container stack, index 0 .. stack_cap-1
    expecting_key,  \* the caller's key-flag vector, index 0 .. stack_cap-1
    oob,            \* writes json_feed made outside the caller's arrays
    stream,         \* the bytes json_feed has gone over so far (the source buffer)
    ret,            \* the last API call and what it returned
    nfinish,        \* number of json_finish calls since json_init
    look,           \* the last navigation query and its result
    heap,           \* the blocks malloc has returned: their bytes, live or freed
    calls           \* the builder calls made so far

vars == <<p, nodes, stack, expecting_key, oob, stream, ret, nfinish, look, heap, calls>>

(***************************************************************************)
(* Bounds of the model.                                                    *)
(***************************************************************************)
MaxChunk  == 2      \* longest chunk one json_feed call is given
MaxFree   == 3      \* longest stream enumerated over FreeAlphabet
MaxFinish == 2      \* json_finish calls per parse
MaxNodes  == 12     \* the large nodes_cap
MaxDepth  == 4      \* the large stack_cap

(***************************************************************************)
(* Bytes.                                                                  *)
(***************************************************************************)
Code ==
    [c \in {" ", "\t", "\n", "\r", "\"", "+", ",", "-", ".", "/", "0", "1", "2",
            "3", "4", "5", "6", "7", "8", "9", ":", "A", "E", "F", "[", "\\", "]", "a", "b", "c",
            "e", "f", "h", "i", "l", "n", "q", "r", "s", "t", "u", "x", "{", "}"} |->
        CASE c = "\t" -> 9   [] c = "\n" -> 10  [] c = "\r" -> 13  [] c = " " -> 32
          [] c = "\"" -> 34  [] c = "+" -> 43   [] c = "," -> 44   [] c = "-" -> 45
          [] c = "." -> 46   [] c = "/" -> 47   [] c = "0" -> 48   [] c = "1" -> 49
          [] c = "2" -> 50   [] c = "3" -> 51   [] c = "4" -> 52   [] c = "5" -> 53
          [] c = "6" -> 54   [] c = "7" -> 55   [] c = "8" -> 56   [] c = "9" -> 57
          [] c = ":" -> 58   [] c = "A" -> 65   [] c = "E" -> 69   [] c = "F" -> 70
          [] c = "[" -> 91   [] c = "\\" -> 92  [] c = "]" -> 93   [] c = "a" -> 97
          [] c = "b" -> 98   [] c = "c" -> 99   [] c = "e" -> 101  [] c = "f" -> 102
          [] c = "h" -> 104  [] c = "i" -> 105
          [] c = "l" -> 108  [] c = "n" -> 110  [] c = "q" -> 113  [] c = "r" -> 114
          [] c = "s" -> 115  [] c = "t" -> 116  [] c = "u" -> 117  [] c = "x" -> 120
          [] c = "{" -> 123  [] c = "}" -> 125]

Bytes == DOMAIN Code

IsDigit(c) == Code[c] >= Code["0"] /\ Code[c] <= Code["9"]

IsHex(c) ==
    \/ (Code[c] >= Code["0"] /\ Code[c] <= Code["9"])
    \/ (Code[c] >= Code["A"] /\ Code[c] <= Code["F"])
    \/ (Code[c] >= Code["a"] /\ Code[c] <= Code["f"])

IsWs(c) == c \in {" ", "\t", "\n", "\r"}

(***************************************************************************)
(* The key hash: uint32_t arithmetic, a value kept as two 16-bit halves.   *)
(***************************************************************************)
RECURSIVE XorBits(_, _, _)
XorBits(a, b, n) ==
    IF n = 0 THEN 0
    ELSE (((a % 2) + (b % 2)) % 2) + 2 * XorBits(a \div 2, b \div 2, n - 1)

Hash0 == [hi |-> 0, lo |-> 0]

\* hash * 33 ^ (unsigned char)c, modulo 2^32
HashStep(h, c) ==
    LET lo33 == h.lo * 33
        lo   == lo33 % 65536
        hi   == ((h.hi * 33) + (lo33 \div 65536)) % 65536
    IN  [hi |-> hi, lo |-> ((lo \div 256) * 256) + XorBits(lo % 256, Code[c], 8)]

\* a uint32_t stored into the 28-bit field JsonNode.hash
HashField(h) == ((h.hi % 4096) * 65536) + h.lo

\* a small count stored into the 28-bit field JsonNode.hash
CountField(n) == n % 268435456

\* child->hash == target_hash: the 28-bit field against a uint32_t
HashFieldEquals(field, h) == h.hi < 4096 /\ field = (h.hi * 65536) + h.lo

(***************************************************************************)
(* The structs.                                                            *)
(***************************************************************************)
JsonNode(type, offset, len, hash) ==
    [type |-> type, hash |-> hash, offset |-> offset, len |-> len, children |-> 0,
     strval |-> 0]

ZeroNode == JsonNode("JSON_NULL", 0, 0, 0)

IsContainer(n) == n.type = "JSON_OBJECT" \/ n.type = "JSON_ARRAY"

\* json_init: every field of the JsonParser cleared, the capacities recorded.
json_init(nodes_cap, stack_cap) ==
    [ buffer |-> 0, buf_len |-> 0, consumed |-> 0, line |-> 0,
      nodes_cap |-> nodes_cap, nodes_len |-> 0,
      stack_cap |-> stack_cap, stack_len |-> 0,
      error |-> "JSON_ERR_NONE", error_pos |-> 0,
      state |-> "PS_NORMAL",
      pending_offset |-> 0, pending_len |-> 0, pending_hash |-> Hash0,
      in_escape |-> FALSE, in_uni_escape |-> FALSE, uni_digits |-> 0,
      is_key_string |-> FALSE,
      num_has_dot |-> FALSE, num_has_exp |-> FALSE, num_has_digit |-> FALSE,
      num_has_digit_after_dot |-> FALSE, num_has_digit_after_exp |-> FALSE,
      num_ends_with_dot |-> FALSE, num_ends_with_e |-> FALSE,
      num_ends_with_esgn |-> FALSE, num_is_negative |-> FALSE,
      pending_literal |-> "LIT_NONE", literal_matched |-> 0,
      pending_value |-> FALSE ]

(***************************************************************************)
(* json_feed works on a context: the struct and the three caller arrays.   *)
(***************************************************************************)
Ctx(pp, nn, ss, ek, ob) ==
    [p |-> pp, nodes |-> nn, stack |-> ss, expecting_key |-> ek, oob |-> ob]

\* the position recorded relative to the chunk
Unexpected_chunk_relative(c, pos) ==
    [c EXCEPT !.p.error = "JSON_ERR_UNEXPECTED", !.p.error_pos = pos]

\* p->error = kind; p->error_pos = p->consumed + pos; return false
Unexpected(c, pos) ==
    [c EXCEPT !.p.error = "JSON_ERR_UNEXPECTED", !.p.error_pos = c.p.consumed + pos]

\* p->error = JSON_ERR_CAPACITY; return false   (error_pos is left as it was)
Capacity(c) == [c EXCEPT !.p.error = "JSON_ERR_CAPACITY"]

\* the innermost open container: p->nodes[p->stack[p->stack_len - 1]]
TopIdx(c) == c.stack[c.p.stack_len - 1]
TopType(c) == c.nodes[TopIdx(c)].type

\* the node stored field by field, the slot's children left as it was
AppendNode_keeps_children(c, node) ==
    LET idx == c.p.nodes_len
        c1  == [c EXCEPT !.p.nodes_len = idx + 1]
    IN  IF idx >= c.p.nodes_cap THEN Capacity(c1)
        ELSE [c1 EXCEPT !.nodes[idx] = [node EXCEPT !.children = c.nodes[idx].children]]

\* idx = p->nodes_len++; if (idx >= p->nodes_cap) Capacity; p->nodes[idx] = node
AppendNode(c, node) ==
    LET idx == c.p.nodes_len
        c1  == [c EXCEPT !.p.nodes_len = idx + 1]
    IN  IF idx >= c.p.nodes_cap THEN Capacity(c1)
        ELSE [c1 EXCEPT !.nodes[idx] = node]

\* a value inside an object, right after a String node, takes that node's hash
InheritHash(c, idx) ==
    IF /\ c.p.stack_len # 0
       /\ TopType(c) = "JSON_OBJECT"
       /\ idx > 0
       /\ c.nodes[idx - 1].type = "JSON_STRING"
    THEN [c EXCEPT !.nodes[idx].hash = c.nodes[idx - 1].hash]
    ELSE c

\* if (p->stack_len) p->nodes[p->stack[p->stack_len - 1]].children++
CountChild(c) ==
    IF c.p.stack_len # 0
    THEN [c EXCEPT !.nodes[TopIdx(c)].children = @ + 1]
    ELSE c

RECURSIVE skip_ws(_, _, _), skip_ws_space_only(_, _, _)
\* skip_ws that knows the space only
skip_ws_space_only(data, pos, line) ==
    IF pos < Len(data) /\ data[pos + 1] = " "
    THEN skip_ws_space_only(data, pos + 1, line)
    ELSE [pos |-> pos, line |-> line]

\* skip_ws: advance over whitespace, counting \n and \r in line
skip_ws(data, pos, line) ==
    IF pos < Len(data) /\ IsWs(data[pos + 1])
    THEN skip_ws(data, pos + 1,
                 IF data[pos + 1] \in {"\n", "\r"} THEN line + 1 ELSE line)
    ELSE [pos |-> pos, line |-> line]

\* One pass of the while loop ends in a result: the context and the next pos.
Step(c, pos) == [c |-> c, pos |-> pos]

(* ---------- expect colon after key ---------- *)
\* the ':' read without pos++
ExpectColonStep_no_advance(c, ch, pos) ==
    IF ch # ":" THEN Step(Unexpected(c, pos), pos)
    ELSE Step([c EXCEPT !.expecting_key[c.p.stack_len - 1] = 0,
                        !.p.state = "PS_NORMAL"], pos)

\* whitespace passed over before the ':'
ExpectColonStep_skips_ws(c, ch, pos) ==
    IF IsWs(ch) THEN Step(c, pos + 1)
    ELSE IF ch # ":" THEN Step(Unexpected(c, pos), pos)
    ELSE Step([c EXCEPT !.expecting_key[c.p.stack_len - 1] = 0,
                        !.p.state = "PS_NORMAL"], pos + 1)

ExpectColonStep(c, ch, pos) ==
    IF ch # ":" THEN Step(Unexpected(c, pos), pos)
    ELSE Step([c EXCEPT !.expecting_key[c.p.stack_len - 1] = 0,
                        !.p.state = "PS_NORMAL"], pos + 1)

(* ---------- literal handling (true/false/null) ---------- *)
LiteralText(lit) ==
    CASE lit = "LIT_TRUE"  -> <<"t", "r", "u", "e">>
      [] lit = "LIT_FALSE" -> <<"f", "a", "l", "s", "e">>
      [] lit = "LIT_NULL"  -> <<"n", "u", "l", "l">>

LiteralTarget(lit) ==
    CASE lit = "LIT_TRUE"  -> "JSON_TRUE"
      [] lit = "LIT_FALSE" -> "JSON_FALSE"
      [] lit = "LIT_NULL"  -> "JSON_NULL"

LiteralStep(c, ch, pos) ==
    LET expected == LiteralText(c.p.pending_literal)
        total    == Len(expected)
    IN  IF ch # expected[c.p.literal_matched + 1] THEN Step(Unexpected(c, pos), pos)
        ELSE LET c1 == [c EXCEPT !.p.literal_matched = @ + 1] IN
             IF c1.p.literal_matched # total THEN Step(c1, pos + 1)
             ELSE LET idx == c1.p.nodes_len
                      c2  == AppendNode(c1, JsonNode(LiteralTarget(c.p.pending_literal),
                                                     c.p.pending_offset, total, 0))
                  IN  IF c2.p.error # "JSON_ERR_NONE" THEN Step(c2, pos + 1)
                      ELSE Step([CountChild(InheritHash(c2, idx)) EXCEPT
                                    !.p.state = "PS_AFTER_VALUE",
                                    !.p.pending_literal = "LIT_NONE",
                                    !.p.literal_matched = 0], pos + 1)

(* ---------- string handling ---------- *)
SimpleEscapes == {"\"", "\\", "/", "b", "f", "n", "r", "t"}

\* the hash a String node gets when its closing quote is read
StringHash(pp) == IF pp.is_key_string THEN HashField(pp.pending_hash) ELSE 0

\* a normal character of a string: counted, and hashed when the string is a key
StringChar(c, ch) ==
    [c EXCEPT !.p.pending_len = @ + 1,
              !.p.pending_hash = IF c.p.is_key_string THEN HashStep(@, ch) ELSE @]

\* a key counted as a child of its object
StringCountsAsChild_always(pp) == TRUE

\* if (p->stack_len && !p->is_key_string) ... children++
StringCountsAsChild(pp) == ~pp.is_key_string

StringClose(c, pos) ==
    LET c1 == AppendNode(c, JsonNode("JSON_STRING", c.p.pending_offset,
                                     c.p.pending_len, StringHash(c.p)))
    IN  IF c1.p.error # "JSON_ERR_NONE" THEN Step(c1, pos)
        ELSE LET c2 == IF StringCountsAsChild(c.p) THEN CountChild(c1) ELSE c1 IN
             Step([c2 EXCEPT
                     !.p.state = IF c.p.is_key_string THEN "PS_EXPECT_COLON"
                                 ELSE "PS_AFTER_VALUE",
                     !.p.pending_value = IF c.p.is_key_string THEN TRUE ELSE @,
                     !.p.in_escape = FALSE, !.p.in_uni_escape = FALSE,
                     !.p.uni_digits = 0], pos + 1)

\* a string step that ends the string at every quote that is no \uXXXX digit
StringStep_quote_ends_escape(c, ch, pos) ==
    IF c.p.in_uni_escape THEN
        IF ~IsHex(ch) THEN Step(Unexpected(c, pos), pos)
        ELSE Step([c EXCEPT !.p.uni_digits = @ + 1,
                            !.p.in_uni_escape = (c.p.uni_digits + 1 # 4),
                            !.p.pending_len = @ + 1], pos + 1)
    ELSE IF ch = "\"" THEN StringClose(c, pos)
    ELSE IF c.p.in_escape THEN
        IF ch \in SimpleEscapes
        THEN Step([c EXCEPT !.p.in_escape = FALSE, !.p.pending_len = @ + 1], pos + 1)
        ELSE IF ch = "u"
        THEN Step([c EXCEPT !.p.in_escape = FALSE, !.p.in_uni_escape = TRUE,
                            !.p.uni_digits = 0, !.p.pending_len = @ + 1], pos + 1)
        ELSE Step(Unexpected([c EXCEPT !.p.in_escape = FALSE], pos), pos)
    ELSE IF ch = "\\" THEN
        Step([c EXCEPT !.p.in_escape = TRUE, !.p.pending_len = @ + 1], pos + 1)
    ELSE Step(StringChar(c, ch), pos + 1)

StringStep(c, ch, pos) ==
    IF c.p.in_uni_escape THEN
        IF ~IsHex(ch) THEN Step(Unexpected(c, pos), pos)
        ELSE Step([c EXCEPT !.p.uni_digits = @ + 1,
                            !.p.in_uni_escape = (c.p.uni_digits + 1 # 4),
                            !.p.pending_len = @ + 1], pos + 1)
    ELSE IF c.p.in_escape THEN
        IF ch \in SimpleEscapes
        THEN Step([c EXCEPT !.p.in_escape = FALSE, !.p.pending_len = @ + 1], pos + 1)
        ELSE IF ch = "u"
        THEN Step([c EXCEPT !.p.in_escape = FALSE, !.p.in_uni_escape = TRUE,
                            !.p.uni_digits = 0, !.p.pending_len = @ + 1], pos + 1)
        ELSE Step(Unexpected([c EXCEPT !.p.in_escape = FALSE], pos), pos)
    ELSE IF ch = "\\" THEN
        Step([c EXCEPT !.p.in_escape = TRUE, !.p.pending_len = @ + 1], pos + 1)
    ELSE IF ch = "\"" THEN StringClose(c, pos)
    ELSE Step(StringChar(c, ch), pos + 1)

(* ---------- number handling ---------- *)
\* the validation without the tests of what the token ends with
NumberMalformed_no_ends_with(pp) ==
    \/ ~pp.num_has_digit
    \/ (pp.num_is_negative /\ pp.pending_len = 1)
    \/ (pp.num_has_dot /\ ~pp.num_has_digit_after_dot)
    \/ (pp.num_has_exp /\ ~pp.num_has_digit_after_exp)

\* the validation made where a number ends (json_feed and json_finish)
NumberMalformed(pp) ==
    \/ ~pp.num_has_digit
    \/ (pp.num_is_negative /\ pp.pending_len = 1)
    \/ (pp.num_has_dot /\ ~pp.num_has_digit_after_dot)
    \/ (pp.num_has_exp /\ ~pp.num_has_digit_after_exp)
    \/ pp.num_ends_with_dot \/ pp.num_ends_with_e \/ pp.num_ends_with_esgn

NumberType(pp) ==
    IF pp.num_has_dot \/ pp.num_has_exp THEN "JSON_NUMBER_FLOAT" ELSE "JSON_NUMBER_INT"

NumberNode(pp) == JsonNode(NumberType(pp), pp.pending_offset, pp.pending_len, 0)

\* num_char_consumed: p->pending_len++; pos++
NumCharConsumed(c, pos) == Step([c EXCEPT !.p.pending_len = @ + 1], pos + 1)

\* end of number: validate, append the node, leave the byte to the outer state
NumberEnd(c, pos) ==
    IF NumberMalformed(c.p) THEN Step(Unexpected(c, pos), pos)
    ELSE LET idx == c.p.nodes_len
             c1  == AppendNode(c, NumberNode(c.p))
         IN  IF c1.p.error # "JSON_ERR_NONE" THEN Step(c1, pos)
             ELSE Step([CountChild(InheritHash(c1, idx)) EXCEPT
                           !.p.state = "PS_AFTER_VALUE"], pos)

NumberStep(c, ch, pos) ==
    IF IsDigit(ch) THEN
        NumCharConsumed(
            [c EXCEPT !.p.num_has_digit = TRUE,
                      !.p.num_has_digit_after_dot = IF c.p.num_has_dot THEN TRUE ELSE @,
                      !.p.num_has_digit_after_exp = IF c.p.num_has_exp THEN TRUE ELSE @,
                      !.p.num_ends_with_dot = FALSE, !.p.num_ends_with_e = FALSE,
                      !.p.num_ends_with_esgn = FALSE], pos)
    ELSE IF ch = "." /\ ~c.p.num_has_dot /\ ~c.p.num_has_exp THEN
        NumCharConsumed([c EXCEPT !.p.num_has_dot = TRUE,
                                  !.p.num_ends_with_dot = TRUE], pos)
    ELSE IF (ch = "e" \/ ch = "E") /\ ~c.p.num_has_exp /\ c.p.num_has_digit THEN
        NumCharConsumed([c EXCEPT !.p.num_has_exp = TRUE,
                                  !.p.num_ends_with_e = TRUE], pos)
    ELSE IF (ch = "+" \/ ch = "-") /\ c.p.num_ends_with_e THEN
        NumCharConsumed([c EXCEPT !.p.num_ends_with_esgn = TRUE,
                                  !.p.num_ends_with_e = FALSE], pos)
    ELSE NumberEnd(c, pos)

(* ---------- normal state / after-value / container close ---------- *)
\* either close byte taken for the close of the innermost open container
ClosesTop_any_type(c, ch) == c.p.stack_len # 0 /\ ch \in {"}", "]"}

\* the close byte of the innermost open container
ClosesTop(c, ch) ==
    /\ c.p.stack_len # 0
    /\ \/ (ch = "}" /\ TopType(c) = "JSON_OBJECT")
       \/ (ch = "]" /\ TopType(c) = "JSON_ARRAY")

\* the direct-child count where the descendant count belongs
ContentNodes_children(c, open_idx) == c.nodes[open_idx].children

\* total nodes inside the container that closes: nodes_len - (open_idx + 1)
ContentNodes(c, open_idx) == c.p.nodes_len - (open_idx + 1)

\* the close without the test of p->pending_value
ContainerClose_no_pending_test(c, pos) ==
    LET open_idx == c.stack[c.p.stack_len - 1] IN
    Step([c EXCEPT
            !.p.stack_len = @ - 1,
            !.nodes[open_idx].len = c.p.consumed + pos - c.nodes[open_idx].offset + 1,
            !.nodes[open_idx].hash = CountField(ContentNodes(c, open_idx)),
            !.p.state = "PS_AFTER_VALUE"], pos + 1)

ContainerClose(c, pos) ==
    IF c.p.pending_value THEN Step(Unexpected(c, pos), pos)
    ELSE LET open_idx == c.stack[c.p.stack_len - 1] IN
         Step([c EXCEPT
                 !.p.stack_len = @ - 1,
                 !.nodes[open_idx].len = c.p.consumed + pos - c.nodes[open_idx].offset + 1,
                 !.nodes[open_idx].hash = CountField(ContentNodes(c, open_idx)),
                 !.p.state = "PS_AFTER_VALUE"], pos + 1)

\* the comma setting the key flag in an Array as well
AfterValueStep_flag_in_array(c, ch, pos) ==
    IF ch = "," THEN
        Step([c EXCEPT
                !.p.state = "PS_NORMAL",
                !.expecting_key =
                    IF c.p.stack_len # 0
                    THEN [@ EXCEPT ![c.p.stack_len - 1] = 1] ELSE @], pos + 1)
    ELSE Step(Unexpected(c, pos), pos)

\* PS_AFTER_VALUE only allows a comma (or the close handled before)
AfterValueStep(c, ch, pos) ==
    IF ch = "," THEN
        Step([c EXCEPT
                !.p.state = "PS_NORMAL",
                !.expecting_key =
                    IF c.p.stack_len # 0 /\ TopType(c) = "JSON_OBJECT"
                    THEN [@ EXCEPT ![c.p.stack_len - 1] = 1] ELSE @], pos + 1)
    ELSE Step(Unexpected(c, pos), pos)

\* the key string of an object starts
KeyStart(c, ch, pos) ==
    IF ch # "\"" THEN Step(Unexpected(c, pos), pos)
    ELSE Step([c EXCEPT !.p.state = "PS_IN_STRING", !.p.is_key_string = TRUE,
                        !.p.pending_hash = Hash0,
                        !.p.pending_offset = c.p.consumed + pos + 1,
                        !.p.pending_len = 0, !.p.in_escape = FALSE], pos + 1)

\* p->expecting_key[p->stack_len] = flag, made before the stack check: with
\* stack_len = stack_cap the slot lies one past the caller's vector.
SetKeyFlag(c, flag) ==
    IF c.p.stack_len < c.p.stack_cap
    THEN [c EXCEPT !.expecting_key[c.p.stack_len] = flag]
    ELSE [c EXCEPT !.oob = @ \cup {[array |-> "expecting_key", index |-> c.p.stack_len]}]

\* a stack test that lets one container more be pushed
StackFull_off_by_one(pp) == pp.stack_len > pp.stack_cap

\* if (p->stack_len >= p->stack_cap): no room to push a container
StackFull(pp) == pp.stack_len >= pp.stack_cap

\* '{' or '[': append the node, set the key flag, push, count in the parent
ContainerOpen(c, type, flag, pos) ==
    LET idx == c.p.nodes_len
        c1  == AppendNode(c, JsonNode(type, c.p.consumed + pos, 0, 0))
    IN  IF c1.p.error # "JSON_ERR_NONE" THEN Step(c1, pos)
        ELSE LET c2 == SetKeyFlag(c1, flag) IN
             IF StackFull(c2.p) THEN Step(Capacity(c2), pos)
             ELSE LET c3 == [c2 EXCEPT !.stack[c2.p.stack_len] = idx,
                                       !.p.stack_len = @ + 1]
                  IN  Step(IF c3.p.stack_len > 1
                           THEN [c3 EXCEPT !.nodes[c3.stack[c3.p.stack_len - 2]].children = @ + 1]
                           ELSE c3, pos + 1)

NumberStart(c, ch, pos) ==
    Step([c EXCEPT !.p.state = "PS_IN_NUMBER", !.p.pending_offset = c.p.consumed + pos,
                   !.p.pending_len = 1, !.p.num_has_digit = IsDigit(ch),
                   !.p.num_is_negative = (ch = "-"),
                   !.p.num_has_dot = FALSE, !.p.num_has_exp = FALSE], pos + 1)

LiteralStart(c, lit, pos) ==
    Step([c EXCEPT !.p.pending_literal = lit, !.p.literal_matched = 1,
                   !.p.pending_offset = c.p.consumed + pos,
                   !.p.state = "PS_IN_LITERAL"], pos + 1)

\* a value starts: p->pending_value = false, then the dispatch on the byte
ValueStart(c0, ch, pos) ==
    LET c == [c0 EXCEPT !.p.pending_value = FALSE] IN
    IF ch = "\"" THEN
        Step([c EXCEPT !.p.state = "PS_IN_STRING", !.p.is_key_string = FALSE,
                       !.p.pending_offset = c.p.consumed + pos + 1,
                       !.p.pending_len = 0, !.p.in_escape = FALSE], pos + 1)
    ELSE IF ch = "{" THEN ContainerOpen(c, "JSON_OBJECT", 1, pos)
    ELSE IF ch = "[" THEN ContainerOpen(c, "JSON_ARRAY", 0, pos)
    ELSE IF ch = "-" \/ IsDigit(ch) THEN NumberStart(c, ch, pos)
    ELSE IF ch = "t" THEN LiteralStart(c, "LIT_TRUE", pos)
    ELSE IF ch = "f" THEN LiteralStart(c, "LIT_FALSE", pos)
    ELSE IF ch = "n" THEN LiteralStart(c, "LIT_NULL", pos)
    ELSE Step(Unexpected(c, pos), pos)

NormalStep(c, ch, pos) ==
    IF ClosesTop(c, ch) THEN ContainerClose(c, pos)
    ELSE IF c.p.state = "PS_AFTER_VALUE" THEN AfterValueStep(c, ch, pos)
    ELSE IF c.p.stack_len # 0 /\ c.expecting_key[c.p.stack_len - 1] # 0
         THEN KeyStart(c, ch, pos)
    ELSE ValueStart(c, ch, pos)

\* the body of the while loop for the byte at pos
FeedByte(c, ch, pos) ==
    CASE c.p.state = "PS_EXPECT_COLON" -> ExpectColonStep(c, ch, pos)
      [] c.p.state = "PS_IN_LITERAL"   -> LiteralStep(c, ch, pos)
      [] c.p.state = "PS_IN_STRING"    -> StringStep(c, ch, pos)
      [] c.p.state = "PS_IN_NUMBER"    -> NumberStep(c, ch, pos)
      [] OTHER                         -> NormalStep(c, ch, pos)

\* what json_feed hands back: the context, the value returned, and the
\* number of bytes of the chunk it went over (pos when it returned)
Fed(c, ok, pos) == [c |-> c, ok |-> ok, pos |-> pos]

\* json_feed returning without adding pos to consumed
FeedReturn_keeps_consumed(c, pos) == Fed(c, TRUE, pos)

\* p->consumed += pos; return true
FeedReturn(c, pos) == Fed([c EXCEPT !.p.consumed = @ + pos], TRUE, pos)

\* while (pos < len): skip whitespace in Normal and AfterValue, then one byte
RECURSIVE FeedLoop(_, _, _)
FeedLoop(c, data, pos) ==
    IF pos >= Len(data) THEN FeedReturn(c, pos)
    ELSE LET w  == IF c.p.state \in {"PS_NORMAL", "PS_AFTER_VALUE"}
                   THEN skip_ws(data, pos, c.p.line)
                   ELSE [pos |-> pos, line |-> c.p.line]
             c1 == [c EXCEPT !.p.line = w.line]
         IN  IF w.pos >= Len(data) THEN FeedReturn(c1, w.pos)
             ELSE LET r == FeedByte(c1, data[w.pos + 1], w.pos) IN
                  IF r.c.p.error # "JSON_ERR_NONE" THEN Fed(r.c, FALSE, w.pos + 1)
                  ELSE FeedLoop(r.c, data, r.pos)

\* json_feed without the test of p->error on entry
json_feed_no_error_test(c, data, base) ==
    FeedLoop([c EXCEPT !.p.buffer = base, !.p.buf_len = Len(data)], data, 0)

\* json_feed that begins every chunk in PS_NORMAL
json_feed_restarts(c, data, base) ==
    IF c.p.error # "JSON_ERR_NONE" THEN Fed(c, FALSE, 0)
    ELSE FeedLoop([c EXCEPT !.p.buffer = base, !.p.buf_len = Len(data),
                            !.p.state = "PS_NORMAL"], data, 0)

\* json_feed(p, data, len); base is where data lies in the logical stream
json_feed(c, data, base) ==
    IF c.p.error # "JSON_ERR_NONE" THEN Fed(c, FALSE, 0)
    ELSE FeedLoop([c EXCEPT !.p.buffer = base, !.p.buf_len = Len(data)], data, 0)

(***************************************************************************)
(* json_finish                                                             *)
(***************************************************************************)
\* the result: the context and the value returned
Result(c, ok) == [c |-> c, ok |-> ok]

\* json_finish without the test of the stack
FinishStackOpen_never(pp) == FALSE

FinishStackOpen(pp) == pp.stack_len # 0

\* json_finish testing for an open string only
FinishMidToken_string_only(pp) == pp.state = "PS_IN_STRING"

\* json_finish testing for an open literal only
FinishMidToken_literal_only(pp) == pp.state = "PS_IN_LITERAL"

FinishMidToken(pp) == pp.state = "PS_IN_STRING" \/ pp.state = "PS_IN_LITERAL"

\* json_finish appending the pending number without the validation
FinishNumber_no_validation(c) ==
    LET c1 == AppendNode(c, NumberNode(c.p)) IN
    IF c1.p.error # "JSON_ERR_NONE" THEN Result(c1, FALSE)
    ELSE Result(c1, c1.p.nodes_len > 0)

FinishNumber(c) ==
    IF NumberMalformed(c.p)
    THEN Result([c EXCEPT !.p.error = "JSON_ERR_UNEXPECTED"], FALSE)
    ELSE LET c1 == AppendNode(c, NumberNode(c.p)) IN
         IF c1.p.error # "JSON_ERR_NONE" THEN Result(c1, FALSE)
         ELSE Result(c1, c1.p.nodes_len > 0)

json_finish(c) ==
    IF c.p.error # "JSON_ERR_NONE" THEN Result(c, FALSE)
    ELSE IF FinishStackOpen(c.p)
    THEN Result([c EXCEPT !.p.error = "JSON_ERR_INCOMPLETE"], FALSE)
    ELSE IF c.p.state = "PS_IN_NUMBER" THEN FinishNumber(c)
    ELSE IF FinishMidToken(c.p)
    THEN Result([c EXCEPT !.p.error = "JSON_ERR_INCOMPLETE"], FALSE)
    ELSE Result(c, c.p.nodes_len > 0)

(***************************************************************************)
(* Navigation.  A node is its arena index, NULL is no node; src is the     *)
(* buffer p->buffer points into, read at p->buffer + offset.               *)
(***************************************************************************)
NULL == -1

json_first_child(c, parent) ==
    IF \/ parent = NULL
       \/ ~IsContainer(c.nodes[parent])
       \/ c.nodes[parent].children = 0
    THEN NULL
    ELSE parent + 1

json_next_sibling(c, node) ==
    IF node = NULL THEN NULL
    ELSE LET next_idx == node + 1 + (IF IsContainer(c.nodes[node])
                                     THEN c.nodes[node].hash ELSE 0)
         IN  IF next_idx >= c.p.nodes_len THEN NULL ELSE next_idx

\* for (i = 0; i < index; ++i) child = json_next_sibling(p, child)
RECURSIVE ElementWalk(_, _, _)
ElementWalk(c, child, n) ==
    IF n = 0 THEN child ELSE ElementWalk(c, json_next_sibling(c, child), n - 1)

\* json_get_array_element without the test of index against children
json_get_array_element_no_bound(c, arr, index) ==
    IF arr = NULL \/ c.nodes[arr].type # "JSON_ARRAY" THEN NULL
    ELSE ElementWalk(c, json_first_child(c, arr), index)

json_get_array_element(c, arr, index) ==
    IF arr = NULL \/ c.nodes[arr].type # "JSON_ARRAY" \/ index >= c.nodes[arr].children
    THEN NULL
    ELSE ElementWalk(c, json_first_child(c, arr), index)

RECURSIVE HashFrom(_, _, _)
HashFrom(h, key, i) == IF i > Len(key) THEN h ELSE HashFrom(HashStep(h, key[i]), key, i + 1)

\* json_compute_hash: the uint32_t hash of the query key
json_compute_hash(key) == HashFrom(Hash0, key, 1)

\* memcmp(p->buffer + child->offset, key, key_len) == 0
KeyBytesEqual(c, src, child, key) ==
    \A k \in 1 .. Len(key) :
        LET at == c.p.buffer + c.nodes[child].offset + k IN
        at <= Len(src) /\ src[at] = key[k]

KeyMatches(c, src, child, key, target_hash) ==
    /\ c.nodes[child].type = "JSON_STRING"
    /\ HashFieldEquals(c.nodes[child].hash, target_hash)
    /\ c.nodes[child].len = Len(key)
    /\ KeyBytesEqual(c, src, child, key)

\* while (child): return the sibling after the first match
RECURSIVE ObjectWalk(_, _, _, _, _)
ObjectWalk(c, src, child, key, target_hash) ==
    IF child = NULL THEN NULL
    ELSE IF KeyMatches(c, src, child, key, target_hash)
    THEN json_next_sibling(c, child)
    ELSE ObjectWalk(c, src, json_next_sibling(c, child), key, target_hash)

json_get_object_value(c, src, obj, key) ==
    IF obj = NULL \/ c.nodes[obj].type # "JSON_OBJECT" THEN NULL
    ELSE ObjectWalk(c, src, json_first_child(c, obj), key, json_compute_hash(key))

(***************************************************************************)
(* The serializer, compact mode (pretty = false).  The StringBuf is the    *)
(* sequence of bytes appended to it.                                       *)
(***************************************************************************)
\* src = node->strval ? node->strval : p->buffer + node->offset;
\* stringbuf_append(sb, src, node->len).  Only a context of the builder holds
\* nodes with a strval, and it carries the heap they point into.
SrcBytes(c, src, node) ==
    IF c.nodes[node].strval # 0
    THEN SubSeq(c.heap[c.nodes[node].strval].bytes, 1, c.nodes[node].len)
    ELSE [k \in 1 .. c.nodes[node].len |-> src[c.p.buffer + c.nodes[node].offset + k]]

\* where key_node->strval is read through a NULL key_node: the process is
\* killed there, or the read goes through and the loop runs on
Fault == "SIGSEGV"

\* if (node->offset > p->buf_len) return -1: nothing is appended for the node
PastLen(c, node) == c.nodes[node].offset > c.p.buf_len

RECURSIVE json_dump_node_buf(_, _, _)
RECURSIVE DumpElements(_, _, _, _, _)
RECURSIVE DumpPairs(_, _, _, _, _)

\* the for loop of JSON_ARRAY: child i of n, a ',' after all but the last
DumpElements(c, src, child, i, n) ==
    IF i >= n THEN <<>>
    ELSE json_dump_node_buf(c, src, child)
         \o (IF i + 1 < n THEN <<",">> ELSE <<>>)
         \o DumpElements(c, src, json_next_sibling(c, child), i + 1, n)

\* the for loop of JSON_OBJECT: "key":value for pair i of n
DumpPairs(c, src, key_node, i, n) ==
    IF i >= n THEN <<>>
    ELSE IF key_node = NULL
    THEN <<Fault, "\"", "\"", ":">> \o json_dump_node_buf(c, src, NULL)
         \o (IF i + 1 < n THEN <<",">> ELSE <<>>)
         \o DumpPairs(c, src, NULL, i + 1, n)
    ELSE LET value_node == json_next_sibling(c, key_node) IN
         <<"\"">> \o SrcBytes(c, src, key_node) \o <<"\"", ":">>
         \o json_dump_node_buf(c, src, value_node)
         \o (IF i + 1 < n THEN <<",">> ELSE <<>>)
         \o DumpPairs(c, src, json_next_sibling(c, value_node), i + 1, n)

\* the bytes json_dump_node_buf appends for node
json_dump_node_buf(c, src, node) ==
    IF node = NULL THEN <<"n", "u", "l", "l">>
    ELSE IF PastLen(c, node) THEN <<>>
    ELSE LET n == c.nodes[node] IN
         CASE n.type = "JSON_NULL"   -> <<"n", "u", "l", "l">>
           [] n.type = "JSON_TRUE"   -> <<"t", "r", "u", "e">>
           [] n.type = "JSON_FALSE"  -> <<"f", "a", "l", "s", "e">>
           [] n.type \in {"JSON_NUMBER_INT", "JSON_NUMBER_FLOAT"} -> SrcBytes(c, src, node)
           [] n.type = "JSON_STRING" -> <<"\"">> \o SrcBytes(c, src, node) \o <<"\"">>
           [] n.type = "JSON_ARRAY"  ->
                IF n.children = 0 THEN <<"[", "]">>
                ELSE <<"[">> \o DumpElements(c, src, json_first_child(c, node), 0, n.children)
                     \o <<"]">>
           [] n.type = "JSON_OBJECT" ->
                IF n.children = 0 THEN <<"{", "}">>
                ELSE <<"{">> \o DumpPairs(c, src, json_first_child(c, node), 0, n.children)
                     \o <<"}">>

\* json_serialize(p, false, sb): the bytes in sb and the value returned
json_serialize(c, src) ==
    LET sb == json_dump_node_buf(c, src, 0) IN
    [sb |-> sb, size |-> IF PastLen(c, 0) THEN -1 ELSE Len(sb)]

(***************************************************************************)
(* The builder API and json_free_tree.  Their context is the parser's with *)
(* the heap added: heap[id] is the block malloc returned as pointer id     *)
(* (its bytes, the NUL left out, and whether it is still allocated); a     *)
(* strval of 0 is NULL.                                                    *)
(***************************************************************************)
\* dup = malloc(len + 1); memcpy(dup, text, len + 1)
Malloc(c, text) == [c EXCEPT !.heap = Append(@, [bytes |-> text, live |-> TRUE])]

\* free(ptr)
Free(c, ptr) == [c EXCEPT !.heap[ptr].live = FALSE]

\* what a json_create_* call gives: the context and the node returned
Created(c, node) == [c |-> c, node |-> node]

\* idx = p->nodes_len++; if (idx >= p->nodes_cap) return NULL; p->nodes[idx] = n
CreateNode(c, n) ==
    LET idx == c.p.nodes_len
        c1  == [c EXCEPT !.p.nodes_len = idx + 1]
    IN  IF idx >= c.p.nodes_cap THEN Created(c1, NULL)
        ELSE Created([c1 EXCEPT !.nodes[idx] = n], idx)

json_create_null(c) == CreateNode(c, JsonNode("JSON_NULL", 0, 0, 0))

json_create_bool(c, value) ==
    CreateNode(c, JsonNode(IF value THEN "JSON_TRUE" ELSE "JSON_FALSE", 0, 0, 0))

\* a node that owns the text dup: malloc (which may fail), then the slot;
\* without a slot dup is freed again
CreateOwner(c, type, text, hash, mem) ==
    IF ~mem THEN Created(c, NULL)
    ELSE LET c1  == Malloc(c, text)
             dup == Len(c1.heap)
             r   == CreateNode(c1, [JsonNode(type, 0, Len(text), hash) EXCEPT !.strval = dup])
         IN  IF r.node = NULL THEN Created(Free(r.c, dup), NULL) ELSE r

\* snprintf(buf, sizeof(buf), "%" PRId64, value)
DigitChar == <<"0", "1", "2", "3", "4", "5", "6", "7", "8", "9">>

RECURSIVE Decimal(_)
Decimal(n) ==
    IF n < 10 THEN <<DigitChar[n + 1]>>
    ELSE Decimal(n \div 10) \o <<DigitChar[(n % 10) + 1]>>

FormatInt(value) == IF value < 0 THEN <<"-">> \o Decimal(-value) ELSE Decimal(value)

json_create_int(c, value, mem) ==
    CreateOwner(c, "JSON_NUMBER_INT", FormatInt(value), 0, mem)

\* snprintf(buf, sizeof(buf), "%.17g", value) for the doubles 0.5 and 0.1
FormatFloat ==
    << <<"0", ".", "5">>,
       <<"0", ".", "1", "0", "0", "0", "0", "0", "0", "0", "0", "0", "0", "0", "0", "0", "0", "0", "1">> >>

json_create_float(c, value, mem) ==
    CreateOwner(c, "JSON_NUMBER_FLOAT", FormatFloat[value], 0, mem)

\* h = 0; for each byte h = h * 33 ^ byte; kept in the 28-bit field
json_create_string(c, str, mem) ==
    CreateOwner(c, "JSON_STRING", str, HashField(HashFrom(Hash0, str, 1)), mem)

\* p->stack[p->stack_len++] = idx, made without a test of stack_cap
BuilderPush(c, idx) ==
    LET c1 == IF c.p.stack_len < c.p.stack_cap
              THEN [c EXCEPT !.stack[c.p.stack_len] = idx]
              ELSE [c EXCEPT !.oob = @ \cup {[array |-> "stack", index |-> c.p.stack_len]}]
    IN  [c1 EXCEPT !.p.stack_len = @ + 1]

json_create_array(c) ==
    LET r == CreateNode(c, JsonNode("JSON_ARRAY", 0, 0, 0)) IN
    IF r.node = NULL THEN r ELSE Created(BuilderPush(r.c, r.node), r.node)

json_create_object(c) ==
    LET r == CreateNode(c, JsonNode("JSON_OBJECT", 0, 0, 0)) IN
    IF r.node = NULL THEN r ELSE Created(BuilderPush(SetKeyFlag(r.c, 1), r.node), r.node)

\* array->children++; element is not looked at
json_array_append(c, array, element) ==
    IF array = NULL \/ c.nodes[array].type # "JSON_ARRAY" THEN Result(c, FALSE)
    ELSE Result([c EXCEPT !.nodes[array].children = @ + 1], TRUE)

\* obj->children++; value_node->hash = key_node->hash
json_object_set(c, obj, key_node, value_node) ==
    IF \/ obj = NULL
       \/ c.nodes[obj].type # "JSON_OBJECT"
       \/ key_node = NULL
       \/ c.nodes[key_node].type # "JSON_STRING"
    THEN Result(c, FALSE)
    ELSE Result([c EXCEPT !.nodes[obj].children = @ + 1,
                          !.nodes[value_node].hash = c.nodes[key_node].hash], TRUE)

\* the nodes json_free_tree looks at: start .. start + children, below nodes_len
FreeRange(c, root) ==
    {i \in root .. root + c.nodes[root].children : i < c.p.nodes_len}

\* json_free_tree: free(strval) of every node of the range that has one
json_free_tree(c, root) ==
    IF root = NULL THEN c
    ELSE [c EXCEPT !.heap =
            [ptr \in DOMAIN c.heap |->
                IF \E i \in FreeRange(c, root) : c.nodes[i].strval = ptr
                THEN [c.heap[ptr] EXCEPT !.live = FALSE]
                ELSE c.heap[ptr]]]

(***************************************************************************)
(* The callers: the streams they feed, in chunks, and the capacities.      *)
(***************************************************************************)
\* documents fed to the parser (the scenarios, the test suite's inputs, and
\* inputs for the cases the properties speak of); every prefix is fed too
Corpus ==
    {
      <<"n", "u", "l", "l">>,   \* scenario 1
      <<"[", "1", ",", " ", "2", ".", "5", ",", " ", "t", "r", "u", "e", ",", " ", "f", "a", "l", "s", "e", ",", " ", "n", "u", "l", "l", ",", " ", "\"", "h", "i", "\"", "]">>,   \* scenario 2
      <<"{", "\"", "a", "\"", ":", "1", ",", "\"", "b", "\"", ":", "t", "r", "u", "e", ",", "\"", "c", "\"", ":", "n", "u", "l", "l", "}">>,   \* scenario 3
      <<"{", "\"", "u", "\"", ":", "{", "\"", "n", "\"", ":", "\"", "A", "\"", ",", "\"", "a", "\"", ":", "3", "0", ",", "\"", "c", "\"", ":", "t", "r", "u", "e", "}", ",", "\"", "t", "\"", ":", "[", "]", "}">>,   \* scenario 4, names shortened
      <<"{", "\"", "a", "\"", ":", "}">>,   \* scenario 5: key without value
      <<"{", "\"", "a", "\"", ":", " ", "\n", "}">>,   \* the same, whitespace after the colon
      <<"\"", "\\", "\"", "\\", "\\", "\\", "/", "\\", "b", "\\", "f", "\\", "n", "\\", "r", "\\", "t", "\\", "u", "0", "0", "2", "0", "\"">>,   \* scenario 6: every escape
      <<" ", "f", "a", "l", "s", "e", " ">>,   \* test_true_false
      <<"t", "r", "u", "x">>,   \* test_error_detection
      <<"\"", "a", "b", "\"", ":">>,   \* test_error_detection
      <<"\"", "\\", "q", "\"">>,   \* test_error_detection
      <<"\"", "\\", "u", "0", "0", "e", "\"">>,   \* quote inside \uXXXX
      <<"1", ".">>,
      <<"1", "e">>,
      <<"-">>,
      <<"0">>,
      <<"-", "0", ".", "5", "e", "-", "3">>,   \* test_numbers
      <<"1", "e", "1", "0">>,   \* test_numbers
      <<"3", ".", "1", "4">>,   \* test_numbers
      <<"1", ".", "e", "5">>,
      <<"-", ".", "5">>,
      <<"1", "E", "+">>,
      <<"[", "1", ".", "5", ",", "2", ".", "e", "3", "]">>,
      <<"[", "-", "1", ",", "0", ".", "5", " ", "]">>,
      <<"[", "1", "e", "5", ",", "2", "e", "]">>,   \* a number with no exponent digit after one that had some
      <<"1", ".", "5", ",", "2", ".">>,   \* the same for the fraction, at depth 0
      <<"[", "1", ",", "]">>,   \* trailing comma in an array
      <<"{", "\"", "a", "\"", ":", "1", ",", "}">>,   \* trailing comma in an object
      <<"{", "\"", "a", "\"", ":", "1", " ", ",", " ", "}">>,
      <<"[", "1", ",", ",", "2", "]">>,
      <<"[", "[", "1", "]", ",", "[", "2", ",", "[", "3", "]", "]", ",", "[", "]", "]">>,   \* nested arrays
      <<"[", "[", "[", "[", "[", "1", "]", "]", "]", "]", "]">>,   \* depth 5
      <<"{", "\"", "a", "\"", ":", "{", "\"", "b", "\"", ":", "[", "1", ",", "{", "\"", "c", "\"", ":", "n", "u", "l", "l", "}", "]", "}", ",", "\"", "e", "\"", ":", "\"", "f", "\"", "}">>,   \* nested objects
      <<"{", "\"", "x", "\"", ":", "{", "\"", "a", "\"", ":", "1", "}", ",", "\"", "b", "\"", ":", "2", "}">>,   \* a key of the outer object after the inner one
      <<"{", "\"", "x", "\"", ":", "{", "\"", "a", "\"", ":", "[", "]", "}", ",", "\"", "a", "\"", ":", "\"", "s", "\"", "}">>,
      <<"{", "\"", "a", "a", "a", "a", "a", "a", "\"", ":", "1", "}">>,   \* a key whose hash needs more than 28 bits
      <<"{", "\"", "a", "\"", ":", "\"", "\"", ",", "\"", "\"", ":", "1", "}">>,   \* empty string value before the empty key
      <<"{", "\"", "a", "\"", ":", "1", ",", "\"", "a", "\"", ":", "2", "}">>,   \* duplicate key
      <<"{", "\"", "a", "\"", ":", "[", "]", ",", "\"", "b", "\"", ":", "{", "}", "}">>,
      <<"{", "\"", "a", "\"", " ", ":", "1", "}">>,   \* whitespace before the colon
      <<"{", "\"", "a", "\"", ":", " ", "1", " ", "}">>,
      <<"{", "\"", "a", "\"", ":", "\"", "b", "\"", ",", "\"", "c", "\"", ":", "[", "t", "r", "u", "e", "]", "}">>,
      <<"{", "\"", "a", "\"", "}">>,
      <<"[", "}">>,
      <<"{", "]">>,
      <<"]">>,
      <<"1", ",", "2">>,   \* comma at depth 0
      <<"[", "]", ",", "[", "]">>,
      <<"1", ",">>,
      <<" ", "\n", "\t", " ">>,   \* whitespace only
      <<"\n", "[", "\n", "1", "\n", "]", "\n">>,
      <<"[", "\"", ",", "]", "\"", "]">>,   \* comma and bracket inside a string
      <<"[", "\"", "a", "\\", "\"", "b", "\"", ",", "1", "]">>,
      <<"{", "\"", "\\", "n", "\"", ":", "1", "}">>,   \* an escape in a key
      [i \in 1 .. MaxDepth + 1 |-> "["]   \* one container more than the large stack_cap
    }

\* the bytes of the streams that are enumerated exhaustively up to MaxFree
FreeAlphabet == {"[", "]", "{", "}", ",", "\"", "1"}

Min(a, b) == IF a < b THEN a ELSE b

IsPrefix(s, d) == Len(s) <= Len(d) /\ SubSeq(d, 1, Len(s)) = s

\* the chunks a caller may feed next after the stream s
NextChunks(s) ==
    {SubSeq(d, Len(s) + 1, Len(s) + k) :
        <<d, k>> \in {dk \in Corpus \X (0 .. MaxChunk) :
                        IsPrefix(s, dk[1]) /\ Len(s) + dk[2] <= Len(dk[1])}}
    \cup
    (IF Len(s) <= MaxFree /\ \A i \in 1 .. Len(s) : s[i] \in FreeAlphabet
     THEN UNION {[1 .. k -> FreeAlphabet] : k \in 0 .. Min(MaxChunk, MaxFree - Len(s))}
     ELSE {})

\* the keys navigation is asked for
QueryKeys == {<<>>, <<"a">>, <<"b">>, <<"a", "a", "a", "a", "a", "a">>}

\* the capacities given to json_init: ample, a small arena, a small stack
Caps == {<<MaxNodes, MaxDepth>>, <<2, MaxDepth>>, <<MaxNodes, 1>>}

NoLook == [fn |-> "none", node |-> NULL, key |-> <<>>, index |-> 0, res |-> NULL]

\* the largest index json_get_array_element is asked for
MaxIndex == 3

(***************************************************************************)
(* Actions.                                                                *)
(***************************************************************************)
Init ==
    \E cap \in Caps :
      LET nc == cap[1]
          sc == cap[2]
      IN
        /\ p = json_init(nc, sc)
        /\ nodes = [i \in 0 .. nc - 1 |-> ZeroNode]
        /\ stack = [i \in 0 .. sc - 1 |-> 0]
        /\ expecting_key = [i \in 0 .. sc - 1 |-> 0]
        /\ oob = {}
        /\ stream = <<>>
        /\ ret = [op |-> "init", ok |-> TRUE]
        /\ nfinish = 0
        /\ heap = <<>>
        /\ calls = <<>>
        /\ look = NoLook

Here == Ctx(p, nodes, stack, expecting_key, oob)

\* the last call was a json_finish that returned true
Accepted == ret.op = "finish" /\ ret.ok

Install(c) ==
    /\ p' = c.p
    /\ nodes' = c.nodes
    /\ stack' = c.stack
    /\ expecting_key' = c.expecting_key
    /\ oob' = c.oob

\* the caller hands the next chunk of its buffer to json_feed; as in
\* parse_full and fuzz_one no chunk is fed after json_finish, except to a
\* parser that holds an error
Feed(chunk) ==
    /\ ret.op # "parse_full"
    /\ nfinish = 0 \/ p.error # "JSON_ERR_NONE"
    /\ LET r == json_feed(Here, chunk, Len(stream)) IN
        /\ Install(r.c)
        /\ ret' = [op |-> "feed", ok |-> r.ok]
        /\ stream' = stream \o SubSeq(chunk, 1, r.pos)
    /\ look' = NoLook
    /\ UNCHANGED <<nfinish, heap, calls>>

\* json_finish
Finish ==
    /\ ret.op # "parse_full"
    /\ nfinish < MaxFinish
    /\ LET r == json_finish(Here) IN
        /\ Install(r.c)
        /\ ret' = [op |-> "finish", ok |-> r.ok]
    /\ nfinish' = nfinish + 1
    /\ look' = NoLook
    /\ UNCHANGED <<stream, heap, calls>>

\* the end of parse_full: p->buffer = json; return json_finish(p)
ParseFullFinish ==
    /\ nfinish = 0
    /\ p.error = "JSON_ERR_NONE"
    /\ LET r == json_finish([Here EXCEPT !.p.buffer = 0]) IN
        /\ Install(r.c)
        /\ ret' = [op |-> "finish", ok |-> r.ok]
    /\ nfinish' = nfinish + 1
    /\ look' = NoLook
    /\ UNCHANGED <<stream, heap, calls>>

\* the indices of the nodes written to the arena
NodeIdx == 0 .. Min(p.nodes_len, p.nodes_cap) - 1

Containers == {i \in NodeIdx : IsContainer(nodes[i])}

Scalars == {i \in NodeIdx : ~IsContainer(nodes[i])}

\* json_get_object_value on a parsed document whose buffer the caller kept
\* whole (p->buffer at the start of the stream, as parse_full leaves it)
ObjectValue(obj, key) ==
    /\ Accepted
    /\ p.buffer = 0
    /\ look' = [fn |-> "object_value", node |-> obj, key |-> key, index |-> 0,
                res |-> json_get_object_value(Here, stream, obj, key)]
    /\ UNCHANGED <<p, nodes, stack, expecting_key, oob, stream, ret, nfinish, heap, calls>>

\* json_get_array_element on a node of a parsed document
ArrayElement(arr, index) ==
    /\ Accepted
    /\ look = NoLook
    /\ look' = [fn |-> "array_element", node |-> arr, key |-> <<>>, index |-> index,
                res |-> json_get_array_element(Here, arr, index)]
    /\ UNCHANGED <<p, nodes, stack, expecting_key, oob, stream, ret, nfinish, heap, calls>>

\* json_serialize of a parsed document whose buffer the caller kept whole;
\* look.key holds the bytes written, look.res the value returned
Serialize ==
    /\ Accepted
    /\ p.buffer = 0
    /\ LET r == json_serialize(Here, stream) IN
        look' = [fn |-> "serialize", node |-> 0, key |-> r.sb, index |-> 0, res |-> r.size]
    /\ UNCHANGED <<p, nodes, stack, expecting_key, oob, stream, ret, nfinish, heap, calls>>

\* the documents a caller parses with a parser and arrays it has used before
ReparseDocs ==
    { <<"{", "\"", "a", "\"", ":", "}">>,
      <<"[", "{", "\"", "a", "\"", ":", "1", "}", ",", "[", "]", "]">> }

\* parse_full once more, on the parser and the arrays of a run that
\* json_finish has ended (accepted, after a failed feed, or inside a
\* token): json_init (the struct cleared, the arrays left as
\* they are), the document in one chunk, p->buffer = json, json_finish.
\* Nothing is fed or finished after it: the model follows one such parse.
ParseFullAgain(json) ==
    /\ ret.op = "finish"
    /\ look = NoLook
    /\ LET c0  == Ctx(json_init(p.nodes_cap, p.stack_cap), nodes, stack, expecting_key, oob)
           fed == json_feed(c0, json, 0)
           r   == IF fed.ok THEN json_finish([fed.c EXCEPT !.p.buffer = 0])
                  ELSE Result(fed.c, FALSE)
       IN  /\ Install(r.c)
           /\ ret' = [op |-> "parse_full", ok |-> r.ok]
           /\ stream' = SubSeq(json, 1, fed.pos)
           /\ nfinish' = IF fed.ok THEN 1 ELSE 0
    /\ look' = NoLook
    /\ UNCHANGED <<heap, calls>>

Next ==
    \/ \E chunk \in NextChunks(stream) : Feed(chunk)
    \/ Finish
    \/ ParseFullFinish
    \/ \E obj \in Containers, key \in QueryKeys : ObjectValue(obj, key)
    \/ \E arr \in NodeIdx, index \in 0 .. MaxIndex : ArrayElement(arr, index)
    \/ Serialize

Spec == Init /\ [][Next]_vars

\* the same caller, who may also parse a second document with the parser and
\* the arrays of the first (the test suite's static nodes, stack and ekey)
NextReinit ==
    \/ Next
    \/ \E json \in ReparseDocs : ParseFullAgain(json)

SpecReinit == Init /\ [][NextReinit]_vars

(***************************************************************************)
(* The caller of the builder.  It builds a document in document order, as  *)
(* create_tree_test does: a container, then each child right after it      *)
(* (for an object the key, then the value), each child linked with         *)
(* json_array_append or json_object_set once it is built.                  *)
(***************************************************************************)
\* a document to build: t its kind, i the int, the bool (0, 1) or the place
\* of the double in FormatFloat, s the string, k its key when it is a value
\* of an object, kids the children
Leaf(t, i, s) == [t |-> t, i |-> i, s |-> s, k |-> <<>>, kids |-> <<>>]
Tree(t, kids) == [t |-> t, i |-> 0, s |-> <<>>, k |-> <<>>, kids |-> kids]
Keyed(key, doc) == [doc EXCEPT !.k = key]

BuilderDocs ==
    { Tree("object", <<Keyed(<<"A", "l", "i", "c", "e">>, Leaf("int", 30, <<>>))>>),   \* create_tree_test
      Leaf("null", 0, <<>>), Leaf("bool", 1, <<>>), Leaf("int", -7, <<>>), Leaf("float", 1, <<>>), Leaf("string", 0, <<"h", "i">>),
      Tree("array", <<>>), Tree("object", <<>>),
      Tree("array", <<Leaf("int", 1, <<>>), Leaf("int", 2, <<>>)>>),
      Tree("array", <<Tree("array", <<Leaf("int", 1, <<>>)>>), Leaf("int", 2, <<>>)>>),
      Tree("array", <<Tree("array", <<>>), Tree("array", <<Leaf("float", 2, <<>>)>>)>>),
      Tree("array", <<Tree("object", <<Keyed(<<"a">>, Leaf("string", 0, <<"b">>))>>), Leaf("bool", 0, <<>>)>>),
      Tree("object", <<Keyed(<<"a">>, Leaf("int", 1, <<>>)), Keyed(<<"b">>, Leaf("null", 0, <<>>))>>),
      Tree("object", <<Keyed(<<"a">>, Tree("array", <<Leaf("int", 1, <<>>)>>))>>),
      Tree("object", <<Keyed(<<"a">>, Tree("array", <<Leaf("int", 1, <<>>)>>)), Keyed(<<"b">>, Leaf("int", 2, <<>>))>>),
      Tree("object", <<Keyed(<<"a">>, Tree("object", <<Keyed(<<"b">>, Leaf("string", 0, <<"c">>))>>)),
                Keyed(<<"c">>, Tree("array", <<Leaf("int", 3, <<>>), Leaf("string", 0, <<>>)>>))>>) }

\* the arena slots the subtrees of a document take (a node, its keys, its
\* descendants), slot by slot in document order
RECURSIVE Sizes(_), KidsSizes(_, _)
KidsSizes(doc, j) ==
    IF j > Len(doc.kids) THEN <<>>
    ELSE (IF doc.t = "object" THEN <<1>> ELSE <<>>)
         \o Sizes(doc.kids[j]) \o KidsSizes(doc, j + 1)

Sizes(doc) == <<1 + Len(KidsSizes(doc, 1))>> \o KidsSizes(doc, 1)

Size(doc) == Sizes(doc)[1]

\* one call of the builder API: the function, its node arguments, its value
Call(op, a, b, c, i, s) == [op |-> op, a |-> a, b |-> b, c |-> c, i |-> i, s |-> s]

CreateOp ==
    [t \in {"null", "bool", "int", "float", "string", "array", "object"} |->
        CASE t = "null"   -> "json_create_null"
          [] t = "bool"   -> "json_create_bool"
          [] t = "int"    -> "json_create_int"
          [] t = "float"  -> "json_create_float"
          [] t = "string" -> "json_create_string"
          [] t = "array"  -> "json_create_array"
          [] t = "object" -> "json_create_object"]

\* the calls that build doc in the slots from idx on
RECURSIVE Build(_, _), BuildKids(_, _, _, _)
BuildKids(doc, j, parent, idx) ==
    IF j > Len(doc.kids) THEN <<>>
    ELSE LET kid == doc.kids[j] IN
         IF doc.t = "object"
         THEN <<Call("json_create_string", 0, 0, 0, 0, kid.k)>>
              \o Build(kid, idx + 1)
              \o <<Call("json_object_set", parent, idx, idx + 1, 0, <<>>)>>
              \o BuildKids(doc, j + 1, parent, idx + 1 + Size(kid))
         ELSE Build(kid, idx)
              \o <<Call("json_array_append", parent, idx, 0, 0, <<>>)>>
              \o BuildKids(doc, j + 1, parent, idx + Size(kid))

Build(doc, idx) ==
    <<Call(CreateOp[doc.t], 0, 0, 0, doc.i, doc.s)>> \o BuildKids(doc, 1, idx, idx + 1)

Plans == {Build(doc, 0) : doc \in BuilderDocs}

\* the calls a caller may make next
NextCalls ==
    {plan[Len(calls) + 1] :
        plan \in {q \in Plans : Len(q) > Len(calls) /\ SubSeq(q, 1, Len(calls)) = calls}}

\* the context of the builder: the parser's and the heap
HereB ==
    [p |-> p, nodes |-> nodes, stack |-> stack, expecting_key |-> expecting_key,
     oob |-> oob, heap |-> heap]

\* the caller goes on while no call has failed and nothing was freed
Building == ret.ok /\ ret.op # "json_free_tree"

\* a call was made and gave ok
Made(c, call, ok) ==
    /\ Install(c)
    /\ heap' = c.heap
    /\ calls' = Append(calls, call)
    /\ ret' = [op |-> call.op, ok |-> ok]
    /\ look' = NoLook
    /\ UNCHANGED <<stream, nfinish>>

CreateNull(call) ==
    /\ Building /\ call.op = "json_create_null"
    /\ LET r == json_create_null(HereB) IN Made(r.c, call, r.node # NULL)

CreateBool(call) ==
    /\ Building /\ call.op = "json_create_bool"
    /\ LET r == json_create_bool(HereB, call.i = 1) IN Made(r.c, call, r.node # NULL)

CreateInt(call, mem) ==
    /\ Building /\ call.op = "json_create_int"
    /\ LET r == json_create_int(HereB, call.i, mem) IN Made(r.c, call, r.node # NULL)

CreateFloat(call, mem) ==
    /\ Building /\ call.op = "json_create_float"
    /\ LET r == json_create_float(HereB, call.i, mem) IN Made(r.c, call, r.node # NULL)

CreateString(call, mem) ==
    /\ Building /\ call.op = "json_create_string"
    /\ LET r == json_create_string(HereB, call.s, mem) IN Made(r.c, call, r.node # NULL)

CreateArray(call) ==
    /\ Building /\ call.op = "json_create_array"
    /\ LET r == json_create_array(HereB) IN Made(r.c, call, r.node # NULL)

CreateObject(call) ==
    /\ Building /\ call.op = "json_create_object"
    /\ LET r == json_create_object(HereB) IN Made(r.c, call, r.node # NULL)

ArrayAppend(call) ==
    /\ Building /\ call.op = "json_array_append"
    /\ LET r == json_array_append(HereB, call.a, call.b) IN Made(r.c, call, r.ok)

ObjectSet(call) ==
    /\ Building /\ call.op = "json_object_set"
    /\ LET r == json_object_set(HereB, call.a, call.b, call.c) IN Made(r.c, call, r.ok)

\* the document is built: every call of its plan was made and none failed
Complete == Building /\ calls \in Plans

\* the process was killed inside json_serialize
Killed == -2

RECURSIVE UpToFault(_, _)
UpToFault(sb, k) ==
    IF k > Len(sb) \/ sb[k] = Fault THEN SubSeq(sb, 1, k - 1) ELSE UpToFault(sb, k + 1)

\* what a run of json_serialize may give: the bytes written and the value
\* returned; at a read through NULL either the process is killed with the
\* bytes written till then, or the read goes through and the run goes on
Outcomes(r) ==
    IF \E k \in 1 .. Len(r.sb) : r.sb[k] = Fault
    THEN { [sb |-> UpToFault(r.sb, 1), size |-> Killed],
           [sb |-> SelectSeq(r.sb, LAMBDA b : b # Fault),
            size |-> Len(SelectSeq(r.sb, LAMBDA b : b # Fault))] }
    ELSE {r}

\* json_serialize(p, false, sb) of the built document
SerializeBuilt ==
    /\ Complete
    /\ \E out \in Outcomes(json_serialize(HereB, <<>>)) :
          look' = [fn |-> "serialize_built", node |-> 0, key |-> out.sb, index |-> 0,
                   res |-> out.size]
    /\ UNCHANGED <<p, nodes, stack, expecting_key, oob, stream, ret, nfinish, heap, calls>>

\* json_free_tree(p, root) on a node of the built document
FreeTree(root) ==
    /\ Complete
    /\ LET c == json_free_tree(HereB, root) IN
        /\ Install(c)
        /\ heap' = c.heap
    /\ ret' = [op |-> "json_free_tree", ok |-> TRUE]
    /\ look' = [fn |-> "free_tree", node |-> root, key |-> <<>>, index |-> 0, res |-> NULL]
    /\ UNCHANGED <<stream, nfinish, calls>>

NextBuilder ==
    \/ \E call \in NextCalls : CreateNull(call)
    \/ \E call \in NextCalls : CreateBool(call)
    \/ \E call \in NextCalls, mem \in BOOLEAN : CreateInt(call, mem)
    \/ \E call \in NextCalls, mem \in BOOLEAN : CreateFloat(call, mem)
    \/ \E call \in NextCalls, mem \in BOOLEAN : CreateString(call, mem)
    \/ \E call \in NextCalls : CreateArray(call)
    \/ \E call \in NextCalls : CreateObject(call)
    \/ \E call \in NextCalls : ArrayAppend(call)
    \/ \E call \in NextCalls : ObjectSet(call)
    \/ SerializeBuilt
    \/ \E root \in NodeIdx : FreeTree(root)

BuilderSpec == Init /\ [][NextBuilder]_vars

(***************************************************************************)
(* What the properties speak of, read off the arena and the source bytes.  *)
(***************************************************************************)
\* the stream position of a node's first byte (a string's opening quote)
Start(n) == IF n.type = "JSON_STRING" THEN n.offset - 1 ELSE n.offset

\* the nodes whose token lies between the brackets of container i in the source
Inside(i) ==
    {j \in NodeIdx : /\ nodes[i].offset < Start(nodes[j])
                     /\ Start(nodes[j]) < nodes[i].offset + nodes[i].len}

\* those of them that lie in no container nested in i
Direct(i) ==
    {j \in Inside(i) : \A k \in Inside(i) : ~(IsContainer(nodes[k]) /\ j \in Inside(k))}

\* the place of j among the direct children of i, from 0
Rank(i, j) == Cardinality({k \in Direct(i) : k < j})

\* the arena indices a node and its subtree take
SubtreeEnd(j) == IF IsContainer(nodes[j]) THEN j + nodes[j].hash ELSE j

\* a parse of the whole stream in one chunk (parse_full with one chunk)
InitCtx(nc, sc) ==
    Ctx(json_init(nc, sc), [i \in 0 .. nc - 1 |-> ZeroNode],
        [i \in 0 .. sc - 1 |-> 0], [i \in 0 .. sc - 1 |-> 0], {})

OneShot(data, nc, sc) ==
    LET r == json_feed(InitCtx(nc, sc), data, 0) IN
    IF ~r.ok THEN Result(r.c, FALSE) ELSE json_finish(r.c)

(***************************************************************************)
(* C1. Chunking invariance: when the stream is accepted fed as one chunk,  *)
(* then fed in any chunks and finished it is accepted too, with the same   *)
(* nodes_len, the same nodes, the same stack_len and no error.             *)
(***************************************************************************)
C1_ChunkingInvariance ==
    (ret.op = "finish" /\ nfinish = 1) =>
        LET one == OneShot(stream, p.nodes_cap, p.stack_cap) IN
        one.ok =>
            /\ ret.ok
            /\ p.nodes_len = one.c.p.nodes_len
            /\ \A i \in NodeIdx : nodes[i] = one.c.nodes[i]
            /\ p.stack_len = one.c.p.stack_len
            /\ p.error = "JSON_ERR_NONE"
            /\ one.c.p.error = "JSON_ERR_NONE"

\* accepted after a feed whose chunk began inside a string, number or literal
C1_Witness ==
    /\ Accepted /\ nfinish = 1
    /\ \E i \in Scalars : /\ nodes[i].offset < p.buffer
                          /\ p.buffer < nodes[i].offset + nodes[i].len

(***************************************************************************)
(* C2. After finish succeeds every container at index i has hash = the     *)
(* number of nodes inside it, these are the nodes i+1 .. i+hash, they end  *)
(* within the arena, and two containers' ranges are nested or disjoint.    *)
(***************************************************************************)
C2_DescendantRange ==
    Accepted =>
        /\ \A i \in Containers :
            /\ nodes[i].hash = Cardinality(Inside(i))
            /\ Inside(i) = (i + 1) .. (i + nodes[i].hash)
            /\ i + 1 + nodes[i].hash <= p.nodes_len
        /\ \A i, k \in Containers :
            i < k => \/ SubtreeEnd(i) < k
                     \/ SubtreeEnd(k) <= SubtreeEnd(i)

\* an accepted document with a container nested in a container after a sibling
C2_Witness ==
    /\ Accepted
    /\ \E i, k \in Containers : i < k /\ k \in Inside(i) /\ nodes[k].hash > 0 /\ k > i + 1

(***************************************************************************)
(* C3. After finish succeeds the direct children of every Object are key,  *)
(* value, key, value, ...: each key is a String, the value is the next     *)
(* node, the next key comes right after the value's subtree, and children  *)
(* counts the pairs.                                                       *)
(***************************************************************************)
C3_ObjectPairs ==
    Accepted =>
        \A o \in Containers :
            nodes[o].type = "JSON_OBJECT" =>
                /\ Cardinality(Direct(o)) = 2 * nodes[o].children
                /\ \A j \in Direct(o) :
                    IF Rank(o, j) % 2 = 0
                    THEN /\ nodes[j].type = "JSON_STRING"
                         /\ j + 1 \in Direct(o)
                         /\ (j = o + 1 \/ \E v \in Direct(o) : SubtreeEnd(v) + 1 = j)
                    ELSE /\ j - 1 \in Direct(o)
                         /\ SubtreeEnd(j) + 1 \in Direct(o) \/ SubtreeEnd(j) = SubtreeEnd(o)

\* an accepted object with two pairs, the first value a non-empty container
C3_Witness ==
    /\ Accepted
    /\ \E o \in Containers :
        /\ nodes[o].type = "JSON_OBJECT" /\ nodes[o].children >= 2
        /\ \E v \in Direct(o) : IsContainer(nodes[v]) /\ nodes[v].hash > 0
                                /\ SubtreeEnd(v) < SubtreeEnd(o)

(***************************************************************************)
(* C4. Errors are sticky: in a parser that holds an error every feed and   *)
(* finish returns false and leaves the struct and the arrays as they were. *)
(***************************************************************************)
C4_StickyErrors ==
    [][p.error # "JSON_ERR_NONE" =>
        /\ ~ret'.ok
        /\ p' = p /\ nodes' = nodes /\ stack' = stack
        /\ expecting_key' = expecting_key]_vars

\* a feed made after json_finish: the parser held an error when it was made
C4_Witness == ret.op = "feed" /\ nfinish >= 1 /\ p.error # "JSON_ERR_NONE"

(***************************************************************************)
(* C5. json_feed writes no slot beyond the caller's arrays: no arena slot  *)
(* at index >= nodes_cap, no stack or key-flag slot at index >= stack_cap. *)
(***************************************************************************)
C5_WritesWithinCaps == oob = {}

(***************************************************************************)
(* C6. finish returns true only if no error was recorded, the stack is     *)
(* empty, the state is not InString or InLiteral, a pending number passes  *)
(* the check json_feed makes at a number's terminating byte, and the arena *)
(* holds a node.                                                           *)
(***************************************************************************)
C6_FinishTrueOnlyIf ==
    [][(nfinish' = nfinish + 1 /\ ret'.ok) =>
        /\ p.error = "JSON_ERR_NONE"
        /\ p.stack_len = 0
        /\ p.state \notin {"PS_IN_STRING", "PS_IN_LITERAL"}
        /\ p.state = "PS_IN_NUMBER" =>
              json_feed(Here, <<" ">>, Len(stream)).c.p.error # "JSON_ERR_UNEXPECTED"
        /\ p'.nodes_len >= 1]_vars

\* finish returned true with a number pending
C6_Witness == Accepted /\ p.state = "PS_IN_NUMBER" /\ nfinish = 1

(***************************************************************************)
(* C7. finish on a parser without error whose stack is not empty, or that  *)
(* is inside a string or a literal, returns false and records Incomplete.  *)
(***************************************************************************)
C7_FinishIncomplete ==
    [][(/\ nfinish' = nfinish + 1
        /\ p.error = "JSON_ERR_NONE"
        /\ \/ p.stack_len > 0
           \/ p.state \in {"PS_IN_STRING", "PS_IN_LITERAL"}) =>
        (~ret'.ok /\ p'.error = "JSON_ERR_INCOMPLETE")]_vars

\* Incomplete recorded inside a literal at depth 0
C7_Witness ==
    /\ p.error = "JSON_ERR_INCOMPLETE" /\ ret.op = "finish" /\ ~ret.ok
    /\ p.state = "PS_IN_LITERAL" /\ p.stack_len = 0

(***************************************************************************)
(* C8. No trailing comma: a stream in which a ',' of an array or object is *)
(* followed, after optional whitespace, by the closing ']' or '}' is       *)
(* rejected by json_feed.                                                  *)
(***************************************************************************)
\* stream position at (from 0) lies between the quotes of a string
InStringBytes(at) ==
    \/ \E i \in NodeIdx : /\ nodes[i].type = "JSON_STRING"
                          /\ nodes[i].offset <= at
                          /\ at < nodes[i].offset + nodes[i].len
    \/ p.state = "PS_IN_STRING" /\ p.pending_offset <= at

\* a comma outside strings at i and the close byte at j, whitespace between
TrailingComma(i, j) ==
    /\ i < j
    /\ stream[i + 1] = "," /\ ~InStringBytes(i)
    /\ stream[j + 1] \in {"]", "}"} /\ ~InStringBytes(j)
    /\ \A k \in i + 1 .. j - 1 : IsWs(stream[k + 1])

C8_NoTrailingComma ==
    (\E i, j \in 0 .. Len(stream) - 1 : TrailingComma(i, j)) =>
        (p.error # "JSON_ERR_NONE" /\ ~Accepted)

(***************************************************************************)
(* C9. object_value(obj, k) for a key k that occurs as a direct key of the *)
(* Object obj returns the value of the first pair whose key bytes equal k. *)
(***************************************************************************)
\* the bytes between the quotes of String node j
StringBytes(j) == SubSeq(stream, nodes[j].offset + 1, nodes[j].offset + nodes[j].len)

\* the key nodes of Object o whose bytes are key
KeysEqual(o, key) ==
    {j \in Direct(o) : Rank(o, j) % 2 = 0 /\ StringBytes(j) = key}

MinOf(S) == CHOOSE x \in S : \A y \in S : x <= y

Looked == look.fn = "object_value" /\ nodes[look.node].type = "JSON_OBJECT"

C9_ObjectValueHit ==
    (Looked /\ KeysEqual(look.node, look.key) # {}) =>
        look.res = MinOf(KeysEqual(look.node, look.key)) + 1

(***************************************************************************)
(* C10. object_value(obj, k) for a key k that is no direct key of the      *)
(* Object obj returns None, never a node outside obj's subtree.            *)
(***************************************************************************)
C10_ObjectValueMiss ==
    (Looked /\ KeysEqual(look.node, look.key) = {}) => look.res = NULL

(***************************************************************************)
(* C11. After finish succeeds every key of an Object has hash = the DJB2   *)
(* recurrence over every raw byte between its quotes, the bytes of escape  *)
(* sequences included, truncated to 28 bits.                               *)
(***************************************************************************)
\* the key nodes of Object o: its direct children at even places
KeysOf(o) == {j \in Direct(o) : Rank(o, j) % 2 = 0}

Objects == {o \in Containers : nodes[o].type = "JSON_OBJECT"}

C11_KeyHash ==
    Accepted =>
        \A o \in Objects : \A j \in KeysOf(o) :
            nodes[j].type = "JSON_STRING" =>
                nodes[j].hash = HashField(json_compute_hash(StringBytes(j)))

(***************************************************************************)
(* C12. After finish succeeds every value of an Object pair that is not a  *)
(* container (a number, true, false, null or a string) has the hash of the *)
(* key node right before it.                                               *)
(***************************************************************************)
\* the value nodes of Object o: its direct children at odd places
ValuesOf(o) == {j \in Direct(o) : Rank(o, j) % 2 = 1}

C12_ValueHash ==
    Accepted =>
        \A o \in Objects : \A v \in ValuesOf(o) :
            ~IsContainer(nodes[v]) => nodes[v].hash = nodes[v - 1].hash

(***************************************************************************)
(* C13. After finish succeeds, for every container at index i the index    *)
(* i + 1 + hash that json_next_sibling goes to is the index of a node with *)
(* the same parent as the container, or it is nodes_len and                *)
(* json_next_sibling returns NULL.                                         *)
(***************************************************************************)
\* the container j is a direct child of, NULL for a node at depth 0
Parent(j) ==
    IF \E i \in Containers : j \in Direct(i)
    THEN CHOOSE i \in Containers : j \in Direct(i)
    ELSE NULL

C13_NextSibling ==
    Accepted =>
        \A i \in Containers :
            LET next_idx == i + 1 + nodes[i].hash
                sib      == json_next_sibling(Here, i)
            IN  \/ /\ next_idx \in NodeIdx
                   /\ sib = next_idx
                   /\ Parent(sib) = Parent(i)
                \/ /\ next_idx = p.nodes_len
                   /\ sib = NULL

(***************************************************************************)
(* C14. Lossless raw round trip: the bytes json_serialize writes for an    *)
(* accepted document (compact mode) are accepted when parsed again, and    *)
(* the arena of that parse has as many nodes, with the same type, len,     *)
(* children and hash at every index.                                       *)
(***************************************************************************)
SameShape(a, b) ==
    /\ a.type = b.type /\ a.len = b.len
    /\ a.children = b.children /\ a.hash = b.hash

C14_RoundTrip ==
    (look.fn = "serialize" /\ nfinish = 1) =>
        LET two == OneShot(look.key, p.nodes_cap, p.stack_cap) IN
        /\ two.ok
        /\ two.c.p.nodes_len = p.nodes_len
        /\ \A i \in NodeIdx : SameShape(two.c.nodes[i], nodes[i])

(***************************************************************************)
(* C15. json_feed terminates: one pass of its loop advances pos by one     *)
(* byte, or returns with an error, or is the pass that ends a number       *)
(* (InNumber to AfterValue) without advancing; the pass after that one     *)
(* advances or fails.  So only a number's terminating byte is examined     *)
(* twice and no byte more than twice.                                      *)
(***************************************************************************)
\* one pass of the while loop at pos < Len(data): skip_ws, then the byte at pos
LoopPass(c, data, pos) ==
    LET w  == IF c.p.state \in {"PS_NORMAL", "PS_AFTER_VALUE"}
              THEN skip_ws(data, pos, c.p.line)
              ELSE [pos |-> pos, line |-> c.p.line]
        c1 == [c EXCEPT !.p.line = w.line]
    IN  IF w.pos >= Len(data) THEN Step(c1, w.pos)
        ELSE FeedByte(c1, data[w.pos + 1], w.pos)

Failed(r) == r.c.p.error # "JSON_ERR_NONE"

C15_FeedTerminates ==
    p.error = "JSON_ERR_NONE" =>
        \A ch \in Bytes :
            LET one == LoopPass(Here, <<ch>>, 0) IN
            \/ Failed(one)
            \/ one.pos = 1
            \/ /\ one.pos = 0
               /\ p.state = "PS_IN_NUMBER"
               /\ one.c.p.state = "PS_AFTER_VALUE"
               /\ LET two == LoopPass(one.c, <<ch>>, 0) IN
                  Failed(two) \/ two.pos = 1

\* a number ended by the ',' or bracket after it, which was then consumed
C15_Witness ==
    /\ p.error = "JSON_ERR_NONE"
    /\ Len(stream) >= 2
    /\ stream[Len(stream)] \in {",", "]", "}"}
    /\ p.state \in {"PS_NORMAL", "PS_AFTER_VALUE"}
    /\ \E i \in NodeIdx :
        /\ nodes[i].type \in {"JSON_NUMBER_INT", "JSON_NUMBER_FLOAT"}
        /\ nodes[i].offset + nodes[i].len = Len(stream) - 1

(***************************************************************************)
(* C16. A run is json_init, the chunks fed until the first json_feed that  *)
(* returns false, and json_finish when none did.  As stated: every run     *)
(* ends with exactly one of: json_finish returned true, an error other     *)
(* than None is recorded.                                                  *)
(***************************************************************************)
\* the run is over: a feed has failed, or json_finish was called once
RunEnded ==
    \/ ret.op = "feed" /\ ~ret.ok /\ nfinish = 0
    \/ ret.op = "finish" /\ nfinish = 1

\* the stream holds no token: it is empty or whitespace only
EmptyDocument == \A k \in 1 .. Len(stream) : IsWs(stream[k])

C16_OkOrError ==
    RunEnded => (Accepted <=> p.error = "JSON_ERR_NONE")

(***************************************************************************)
(* C16, amended.  Every run ends with exactly one of: json_finish returned *)
(* true; an error other than None is recorded; the stream was empty or     *)
(* whitespace only, json_finish returned false, no error is recorded and   *)
(* the arena holds no node.                                                *)
(***************************************************************************)
C16_OkErrorOrEmpty ==
    RunEnded =>
        \/ Accepted /\ p.error = "JSON_ERR_NONE" /\ p.nodes_len > 0
        \/ ~Accepted /\ p.error # "JSON_ERR_NONE"
        \/ /\ ~Accepted /\ p.error = "JSON_ERR_NONE"
           /\ ret.op = "finish" /\ EmptyDocument /\ p.nodes_len = 0

\* json_finish after whitespace only: false, and no error recorded
C16_Witness ==
    /\ ret.op = "finish" /\ nfinish = 1 /\ ~ret.ok
    /\ p.error = "JSON_ERR_NONE" /\ Len(stream) >= 2

(***************************************************************************)
(* C17. When json_feed returns false having recorded an error (Unexpected  *)
(* or Capacity), error_pos is the absolute offset in the stream of the     *)
(* byte that was under examination: consumed + pos.                        *)
(***************************************************************************)
\* json_feed has failed in this run; stream ends with the byte it failed at
FeedFailed == ret.op = "feed" /\ ~ret.ok /\ nfinish = 0

C17_ErrorPos ==
    FeedFailed => p.error_pos = Len(stream) - 1

(***************************************************************************)
(* C18. A number that runs to the end of the stream is finalized by        *)
(* json_finish: for a number token at depth 0, json_finish appends the     *)
(* node (type, offset, len) json_feed would have appended had a whitespace *)
(* byte followed, and it returns false exactly when json_feed would have   *)
(* rejected the token at the whitespace byte.                              *)
(***************************************************************************)
C18_FinishFinalizesNumber ==
    [][(/\ nfinish = 0 /\ nfinish' = 1
        /\ p.error = "JSON_ERR_NONE"
        /\ p.state = "PS_IN_NUMBER" /\ p.stack_len = 0) =>
        LET fed == json_feed(Here, <<" ">>, Len(stream))
            idx == p.nodes_len
        IN  /\ ret'.ok = fed.ok
            /\ ret'.ok =>
                /\ p'.nodes_len = idx + 1
                /\ fed.c.p.nodes_len = idx + 1
                /\ nodes'[idx].type = fed.c.nodes[idx].type
                /\ nodes'[idx].offset = fed.c.nodes[idx].offset
                /\ nodes'[idx].len = fed.c.nodes[idx].len
                /\ nodes'[idx].type \in {"JSON_NUMBER_INT", "JSON_NUMBER_FLOAT"}
                /\ \A i \in 0 .. idx - 1 : nodes'[i] = nodes[i]
            /\ ~ret'.ok => p'.error = fed.c.p.error]_vars

\* json_finish made a Float node of a number token that was the whole stream
C18_Witness ==
    /\ Accepted /\ nfinish = 1 /\ p.state = "PS_IN_NUMBER"
    /\ p.nodes_len = 1 /\ nodes[0].type = "JSON_NUMBER_FLOAT"
    /\ nodes[0].offset = 0 /\ nodes[0].len = Len(stream) /\ Len(stream) >= 3

(***************************************************************************)
(* C19. Every token stored as an Int or Float number node has the RFC 8259 *)
(* shape: an optional '-', an integer part of at least one digit, an       *)
(* optional fraction ('.' and at least one digit), an optional exponent    *)
(* ('e' or 'E', an optional sign, at least one digit).  A token with no    *)
(* digit before the '.', such as -.5, is stored nowhere.                   *)
(***************************************************************************)
\* the raw bytes of node i in the stream
TokenBytes(i) == SubSeq(stream, nodes[i].offset + 1, nodes[i].offset + nodes[i].len)

\* t[a .. b] is one digit or more
Digits(t, a, b) == a <= b /\ \A k \in a .. b : IsDigit(t[k])

\* t[b + 1 .. Len(t)] is an exponent
Exponent(t, b) ==
    /\ b + 1 <= Len(t) /\ t[b + 1] \in {"e", "E"}
    /\ LET d == IF b + 2 <= Len(t) /\ t[b + 2] \in {"+", "-"} THEN b + 3 ELSE b + 2
       IN  Digits(t, d, Len(t))

RfcNumber(t) ==
    LET n == Len(t)
        s == IF n >= 1 /\ t[1] = "-" THEN 1 ELSE 0
    IN  \E a \in s + 1 .. n :              \* the integer part is t[s+1 .. a]
          /\ Digits(t, s + 1, a)
          /\ \E b \in a .. n :            \* the fraction is t[a+1 .. b]
               /\ b = a \/ (t[a + 1] = "." /\ Digits(t, a + 2, b))
               /\ b = n \/ Exponent(t, b)

C19_RfcNumbers ==
    \A i \in NodeIdx :
        nodes[i].type \in {"JSON_NUMBER_INT", "JSON_NUMBER_FLOAT"} =>
            RfcNumber(TokenBytes(i))

(***************************************************************************)
(* C20. With room in the arena, a container opened at depth d < stack_cap  *)
(* is pushed without error, and the container open at depth stack_cap      *)
(* makes json_feed return false with error Capacity; a Capacity error with *)
(* room in the arena comes from nothing else.                              *)
(***************************************************************************)
\* the next byte is read as the start of a value
ValueExpected ==
    /\ p.error = "JSON_ERR_NONE"
    /\ p.state = "PS_NORMAL"
    /\ p.stack_len = 0 \/ expecting_key[p.stack_len - 1] = 0

C20_DepthLimit ==
    /\ (ValueExpected /\ p.nodes_len < p.nodes_cap) =>
          \A b \in {"[", "{"} :
              LET fed == json_feed(Here, <<b>>, Len(stream)) IN
              IF p.stack_len < p.stack_cap
              THEN /\ fed.ok /\ fed.c.p.error = "JSON_ERR_NONE"
                   /\ fed.c.p.stack_len = p.stack_len + 1
              ELSE /\ ~fed.ok /\ fed.c.p.error = "JSON_ERR_CAPACITY"
                   /\ fed.c.p.stack_len = p.stack_cap
    /\ (p.error = "JSON_ERR_CAPACITY" /\ p.nodes_len <= p.nodes_cap) =>
          /\ p.stack_len = p.stack_cap
          /\ stream[Len(stream)] \in {"[", "{"}
          /\ ~ret.ok

\* the large stack filled, and Capacity at the container opened next
C20_Witness ==
    /\ p.error = "JSON_ERR_CAPACITY" /\ p.nodes_len <= p.nodes_cap
    /\ p.stack_cap = MaxDepth /\ p.stack_len = MaxDepth
    /\ Len(stream) = MaxDepth + 1

(***************************************************************************)
(* C21. Re-init idempotence: what a parse gives after json_init (the       *)
(* values json_feed and json_finish return, the struct with nodes_len,     *)
(* error and error_pos, and the nodes) does not depend on what the struct, *)
(* the arena, the stack and the key flags held before: it is what the same *)
(* parse gives on cleared arrays.                                          *)
(***************************************************************************)
C21_ReinitIdempotent ==
    ret.op = "parse_full" =>
        LET one == OneShot(stream, p.nodes_cap, p.stack_cap) IN
        /\ ret.ok = one.ok
        /\ p = [one.c.p EXCEPT !.buffer = p.buffer, !.buf_len = p.buf_len]
        /\ \A i \in NodeIdx : nodes[i] = one.c.nodes[i]

\* a parse on arrays that hold what an earlier parse left beyond its own nodes
C21_Witness ==
    /\ ret.op = "parse_full" /\ ret.ok
    /\ p.nodes_len + 1 < p.nodes_cap
    /\ nodes[p.nodes_len] # ZeroNode /\ nodes[p.nodes_len + 1] # ZeroNode
    /\ stack # [i \in 0 .. p.stack_cap - 1 |-> 0]

(***************************************************************************)
(* C22. json_feed with len = 0 on a parser that holds no error returns     *)
(* true and changes nothing of the parse, in every state of the parser     *)
(* (inside a string, a number or a literal too): the struct is as before   *)
(* but for buffer and buf_len, which name the new chunk, and the arena,    *)
(* the stack and the key flags are as before.                              *)
(***************************************************************************)
C22_ZeroLengthFeed ==
    [][(p.error = "JSON_ERR_NONE" /\ ret'.op = "feed" /\ p'.buf_len = 0) =>
          /\ ret'.ok
          /\ p' = [p EXCEPT !.buffer = p'.buffer, !.buf_len = 0]
          /\ nodes' = nodes
          /\ stack' = stack
          /\ expecting_key' = expecting_key
          /\ oob' = oob
          /\ stream' = stream]_vars

\* an empty chunk was fed while a token was open
C22_Witness ==
    /\ ret.op = "feed" /\ ret.ok
    /\ p.error = "JSON_ERR_NONE"
    /\ p.buf_len = 0
    /\ p.state \in {"PS_IN_STRING", "PS_IN_NUMBER", "PS_IN_LITERAL"}
    /\ p.consumed > 0

(***************************************************************************)
(* C23. Whitespace only.  While the bytes fed are all space, tab, \n or    *)
(* \r (none at all included) and no error is recorded, the arena is empty, *)
(* every json_feed made so far returned true, json_feed of any further     *)
(* chunk of whitespace returns true and records neither an error nor a     *)
(* node, and json_finish returns false and records neither.                *)
(***************************************************************************)
WsChunks == UNION {[1 .. k -> {" ", "\t", "\n", "\r"}] : k \in 0 .. MaxChunk}

C23_WhitespaceOnly ==
    (EmptyDocument /\ p.error = "JSON_ERR_NONE" /\ ret.op \in {"init", "feed", "finish"}) =>
        /\ p.nodes_len = 0
        /\ ret.op = "feed" => ret.ok
        /\ ret.op = "finish" => ~ret.ok
        /\ \A ws \in WsChunks :
              LET r == json_feed(Here, ws, Len(stream)) IN
              /\ r.ok /\ r.pos = Len(ws)
              /\ r.c.p.error = "JSON_ERR_NONE" /\ r.c.p.nodes_len = 0
        /\ LET f == json_finish(Here) IN
              ~f.ok /\ f.c.p.error = "JSON_ERR_NONE" /\ f.c.p.nodes_len = 0

\* json_finish has answered a stream of several lines of whitespace
C23_Witness ==
    /\ EmptyDocument /\ Len(stream) >= 3 /\ p.line > 0
    /\ ret.op = "finish" /\ ~ret.ok
    /\ p.error = "JSON_ERR_NONE" /\ p.nodes_len = 0

(***************************************************************************)
(* C24. In an accepted document, for every Array node arr, whatever its    *)
(* elements hold: arr.children is the number of its direct elements;       *)
(* json_get_array_element(arr, i) is the i-th direct element in document   *)
(* order for i < arr.children and NULL for i >= arr.children; and it is    *)
(* NULL for every node that is no Array.                                   *)
(***************************************************************************)
C24_ArrayElement ==
    look.fn = "array_element" =>
        IF nodes[look.node].type = "JSON_ARRAY"
        THEN /\ nodes[look.node].children = Cardinality(Direct(look.node))
             /\ look.index < nodes[look.node].children =>
                    /\ look.res \in Direct(look.node)
                    /\ Rank(look.node, look.res) = look.index
             /\ look.index >= nodes[look.node].children => look.res = NULL
        ELSE look.res = NULL

\* the third element of an array whose earlier elements are arrays with
\* elements of their own
C24_Witness ==
    /\ look.fn = "array_element" /\ look.index = 2 /\ look.res # NULL
    /\ nodes[look.node].type = "JSON_ARRAY"
    /\ \E j \in Direct(look.node) : j < look.res /\ IsContainer(nodes[j]) /\ nodes[j].hash >= 2

(***************************************************************************)
(* What the builder's caller expects, read off the document it built.      *)
(***************************************************************************)
\* the document whose plan the calls made are
PlanDoc == CHOOSE doc \in BuilderDocs : Build(doc, 0) = calls

\* the compact text of a document: every child once, in the order created
RECURSIVE Text(_), KidsText(_, _)
KidsText(doc, j) ==
    IF j > Len(doc.kids) THEN <<>>
    ELSE (IF doc.t = "object"
          THEN <<"\"">> \o doc.kids[j].k \o <<"\"", ":">>
          ELSE <<>>)
         \o Text(doc.kids[j])
         \o (IF j < Len(doc.kids) THEN <<",">> ELSE <<>>)
         \o KidsText(doc, j + 1)

Text(doc) ==
    CASE doc.t = "null"   -> <<"n", "u", "l", "l">>
      [] doc.t = "bool"   -> IF doc.i = 1 THEN <<"t", "r", "u", "e">>
                             ELSE <<"f", "a", "l", "s", "e">>
      [] doc.t = "int"    -> FormatInt(doc.i)
      [] doc.t = "float"  -> FormatFloat[doc.i]
      [] doc.t = "string" -> <<"\"">> \o doc.s \o <<"\"">>
      [] doc.t = "array"  -> <<"[">> \o KidsText(doc, 1) \o <<"]">>
      [] doc.t = "object" -> <<"{">> \o KidsText(doc, 1) \o <<"}">>

\* the slots of the subtree of the node in slot root
Subtree(root) == root .. root + Sizes(PlanDoc)[root + 1] - 1

(***************************************************************************)
(* C25. For a document built in document order and linked with             *)
(* json_array_append and json_object_set, with room in the arena and on    *)
(* the stack, json_serialize in compact mode writes every direct child of  *)
(* every container once and in the order created, a child that is a        *)
(* non-empty array or object included: it writes the document's text.      *)
(***************************************************************************)
C25_BuilderSerialize ==
    (look.fn = "serialize_built" /\ oob = {}) =>
        /\ look.key = Text(PlanDoc)
        /\ look.res = Len(look.key)

(***************************************************************************)
(* C26. After json_free_tree(root) on a built document every strval owned  *)
(* by a node of root's subtree (keys, strings, integers, floats, at any    *)
(* depth) has been freed.                                                  *)
(***************************************************************************)
C26_FreeTree ==
    (ret.op = "json_free_tree" /\ oob = {}) =>
        \A i \in Subtree(look.node) :
            nodes[i].strval # 0 => ~heap[nodes[i].strval].live

(***************************************************************************)
(* C27. A number token with a '.' is stored (by json_feed at the byte that *)
(* ends it, or by json_finish) only if a digit stands right after the '.', *)
(* before the exponent marker or the end of the token: a digit of the      *)
(* exponent is no fraction digit, and 1.e5 is stored nowhere.              *)
(***************************************************************************)
C27_FractionDigit ==
    \A i \in NodeIdx :
        nodes[i].type \in {"JSON_NUMBER_INT", "JSON_NUMBER_FLOAT"} =>
            LET t == TokenBytes(i) IN
            \A k \in 1 .. Len(t) :
                t[k] = "." => (k < Len(t) /\ IsDigit(t[k + 1]))

(***************************************************************************)
(* C28. A key followed by its colon and no value is rejected.  While the   *)
(* last byte fed that is no whitespace is the ':' after a key, the flag    *)
(* pending_value is set, and a '}' fed next, after any whitespace and in   *)
(* the same chunk or a later one, makes json_feed return false with        *)
(* Unexpected and error_pos at that '}'.  The flag is set nowhere else     *)
(* but while the colon is awaited: once a value has started it is clear.   *)
(***************************************************************************)
RECURSIVE LastNonWs(_, _)
LastNonWs(s, k) == IF k = 0 \/ ~IsWs(s[k]) THEN k ELSE LastNonWs(s, k - 1)

\* no error so far, and the bytes fed end with the colon of a key
AfterKeyColon ==
    /\ p.error = "JSON_ERR_NONE"
    /\ p.state = "PS_NORMAL"
    /\ LastNonWs(stream, Len(stream)) > 0
    /\ stream[LastNonWs(stream, Len(stream))] = ":"

C28_KeyWithoutValue ==
    /\ AfterKeyColon =>
          /\ p.pending_value
          /\ \A ws \in WsChunks :
                LET r == json_feed(Here, ws \o <<"}">>, Len(stream)) IN
                /\ ~r.ok
                /\ r.c.p.error = "JSON_ERR_UNEXPECTED"
                /\ r.c.p.error_pos = Len(stream) + Len(ws)
    /\ (p.error = "JSON_ERR_NONE" /\ p.pending_value) =>
          (p.state = "PS_EXPECT_COLON" \/ AfterKeyColon)

\* json_feed has failed at a '}' met after a key's colon and whitespace,
\* the colon and the '}' in different chunks
C28_Witness ==
    /\ ret.op = "feed" /\ ~ret.ok
    /\ p.error = "JSON_ERR_UNEXPECTED" /\ p.error_pos = Len(stream) - 1
    /\ p.state = "PS_NORMAL" /\ p.pending_value
    /\ Len(stream) >= 3 /\ stream[Len(stream)] = "}"
    /\ IsWs(stream[Len(stream) - 1])
    /\ stream[LastNonWs(stream, Len(stream) - 1)] = ":"
    /\ p.consumed = Len(stream) - 1

(***************************************************************************)
(* C29. The escapes of a string are read strictly, whatever the chunking.  *)
(* Read from the byte after the opening quote: a backslash must be         *)
(* followed by one of " \ / b f n r t u, a \u by four hex digits, and the  *)
(* first '"' that is neither the byte after such a backslash nor one of    *)
(* the four after \u closes the string.  Every String node ends at that    *)
(* quote and its len counts every byte before it, the escapes as written;  *)
(* a string still open holds no byte that breaks the rule; and json_feed   *)
(* fails inside a string with Unexpected at the first byte that does.      *)
(***************************************************************************)
\* reading s from index k (from 1); m = 0 in plain text, 1 after a
\* backslash, 2 .. 5 before the first .. fourth hex digit of \uXXXX
RECURSIVE Scan(_, _, _)
Scan(s, k, m) ==
    IF k > Len(s) THEN [kind |-> "open", at |-> k]
    ELSE IF m = 0 THEN
        IF s[k] = "\"" THEN [kind |-> "closed", at |-> k]
        ELSE Scan(s, k + 1, IF s[k] = "\\" THEN 1 ELSE 0)
    ELSE IF m = 1 THEN
        IF s[k] \in {"\"", "\\", "/", "b", "f", "n", "r", "t"} THEN Scan(s, k + 1, 0)
        ELSE IF s[k] = "u" THEN Scan(s, k + 1, 2)
        ELSE [kind |-> "bad", at |-> k]
    ELSE IF IsHex(s[k]) THEN Scan(s, k + 1, IF m = 5 THEN 0 ELSE m + 1)
    ELSE [kind |-> "bad", at |-> k]

C29_StrictEscapes ==
    /\ \A i \in NodeIdx :
          nodes[i].type = "JSON_STRING" =>
              Scan(stream, nodes[i].offset + 1, 0) =
                  [kind |-> "closed", at |-> nodes[i].offset + nodes[i].len + 1]
    /\ (p.state = "PS_IN_STRING" /\ p.error = "JSON_ERR_NONE") =>
          /\ Scan(stream, p.pending_offset + 1, 0).kind = "open"
          /\ p.pending_len = Len(stream) - p.pending_offset
    /\ (p.state = "PS_IN_STRING" /\ p.error = "JSON_ERR_UNEXPECTED") =>
          Scan(stream, p.pending_offset + 1, 0) = [kind |-> "bad", at |-> p.error_pos + 1]

\* an accepted string that holds an escaped quote and a \uXXXX escape
C29_Witness ==
    /\ Accepted
    /\ \E i \in NodeIdx :
          /\ nodes[i].type = "JSON_STRING"
          /\ \E k \in 1 .. nodes[i].len - 1 :
                TokenBytes(i)[k] = "\\" /\ TokenBytes(i)[k + 1] = "\""
          /\ \E k \in 1 .. nodes[i].len - 5 :
                TokenBytes(i)[k] = "\\" /\ TokenBytes(i)[k + 1] = "u"

(***************************************************************************)
(* C30. After finish succeeds every node's (offset, len) addresses exactly *)
(* the value's raw bytes in the concatenated input, whatever the chunking: *)
(* the whole token of a number or literal, the bytes strictly between the  *)
(* quotes of a string (offset is the byte after the opening quote), the    *)
(* bytes from the opening bracket through the matching closing bracket of  *)
(* a container; and offsets increase strictly with the arena index.        *)
(***************************************************************************)
\* the position in s of the bracket closing the container whose content
\* starts at s[k] (m = 1 inside a string, 2 after its backslash), 0 if none
RECURSIVE CloseOf(_, _, _, _)
CloseOf(s, k, depth, m) ==
    IF k > Len(s) THEN 0
    ELSE IF m = 2 THEN CloseOf(s, k + 1, depth, 1)
    ELSE IF m = 1 THEN CloseOf(s, k + 1, depth,
                               IF s[k] = "\\" THEN 2 ELSE IF s[k] = "\"" THEN 0 ELSE 1)
    ELSE IF s[k] = "\"" THEN CloseOf(s, k + 1, depth, 1)
    ELSE IF s[k] \in {"{", "["} THEN CloseOf(s, k + 1, depth + 1, 0)
    ELSE IF s[k] \in {"}", "]"} THEN
             IF depth = 1 THEN k ELSE CloseOf(s, k + 1, depth - 1, 0)
    ELSE CloseOf(s, k + 1, depth, 0)

\* node i spans one whole number token of the stream
WholeNumber(i) ==
    LET t == TokenBytes(i)
        e == nodes[i].offset + nodes[i].len
    IN  /\ nodes[i].len >= 1 /\ e <= Len(stream)
        /\ t[1] = "-" \/ IsDigit(t[1])
        /\ \A k \in 1 .. Len(t) : IsDigit(t[k]) \/ t[k] \in {"-", "+", ".", "e", "E"}
        /\ e < Len(stream) => ~(IsDigit(stream[e + 1]) \/ stream[e + 1] \in {".", "e", "E"})

\* node i spans the bytes of its value and nothing else
RawBytes(i) ==
    LET n == nodes[i]
        e == n.offset + n.len
    IN  CASE n.type \in {"JSON_NUMBER_INT", "JSON_NUMBER_FLOAT"} -> WholeNumber(i)
          [] n.type = "JSON_NULL"  -> TokenBytes(i) = <<"n", "u", "l", "l">>
          [] n.type = "JSON_TRUE"  -> TokenBytes(i) = <<"t", "r", "u", "e">>
          [] n.type = "JSON_FALSE" -> TokenBytes(i) = <<"f", "a", "l", "s", "e">>
          [] n.type = "JSON_STRING" ->
                /\ n.offset >= 1 /\ stream[n.offset] = "\""
                /\ Scan(stream, n.offset + 1, 0) = [kind |-> "closed", at |-> e + 1]
          [] n.type = "JSON_OBJECT" ->
                /\ n.len >= 2 /\ e <= Len(stream)
                /\ stream[n.offset + 1] = "{" /\ stream[e] = "}"
                /\ CloseOf(stream, n.offset + 2, 1, 0) = e
          [] n.type = "JSON_ARRAY" ->
                /\ n.len >= 2 /\ e <= Len(stream)
                /\ stream[n.offset + 1] = "[" /\ stream[e] = "]"
                /\ CloseOf(stream, n.offset + 2, 1, 0) = e
          [] OTHER -> FALSE

C30_OffsetLen ==
    Accepted =>
        /\ \A i \in NodeIdx : RawBytes(i)
        /\ \A i, k \in NodeIdx : i < k => nodes[i].offset < nodes[k].offset

(***************************************************************************)
(* C31. Brackets are matched by type.  Read where a value or a separator   *)
(* may stand, a '}' closes the innermost open container only when that is  *)
(* an Object and a ']' only when it is an Array; a closing byte of the     *)
(* other type, or any closing byte with an empty stack, makes json_feed    *)
(* return false with Unexpected at that byte (also when it ends a number   *)
(* that had room in the arena); and the brackets of every accepted stream  *)
(* are balanced and properly nested.                                       *)
(***************************************************************************)
\* the brackets of s[k ..] outside strings close the brackets in open (the
\* innermost last), each by a bracket of its type, and leave none open
RECURSIVE Nested(_, _, _, _)
Nested(s, k, open, m) ==
    IF k > Len(s) THEN open = <<>> /\ m = 0
    ELSE IF m = 2 THEN Nested(s, k + 1, open, 1)
    ELSE IF m = 1 THEN Nested(s, k + 1, open,
                              IF s[k] = "\\" THEN 2 ELSE IF s[k] = "\"" THEN 0 ELSE 1)
    ELSE IF s[k] = "\"" THEN Nested(s, k + 1, open, 1)
    ELSE IF s[k] \in {"{", "["} THEN Nested(s, k + 1, Append(open, s[k]), 0)
    ELSE IF s[k] \in {"}", "]"} THEN
             /\ open # <<>>
             /\ open[Len(open)] = (IF s[k] = "}" THEN "{" ELSE "[")
             /\ Nested(s, k + 1, SubSeq(open, 1, Len(open) - 1), 0)
    ELSE Nested(s, k + 1, open, 0)

C31_BracketsByType ==
    /\ (/\ p.error = "JSON_ERR_NONE"
        /\ \/ p.state \in {"PS_NORMAL", "PS_AFTER_VALUE"}
           \/ p.state = "PS_IN_NUMBER" /\ p.nodes_len < p.nodes_cap) =>
          \A ch \in {"}", "]"} :
             LET r    == json_feed(Here, <<ch>>, Len(stream))
                 same == /\ p.stack_len # 0
                         /\ nodes[stack[p.stack_len - 1]].type =
                                (IF ch = "}" THEN "JSON_OBJECT" ELSE "JSON_ARRAY")
             IN  /\ r.ok => same /\ r.c.p.stack_len = p.stack_len - 1
                 /\ (same /\ p.state = "PS_AFTER_VALUE") => r.ok
                 /\ ~same => /\ ~r.ok
                             /\ r.c.p.error = "JSON_ERR_UNEXPECTED"
                             /\ r.c.p.error_pos = p.consumed
                             /\ r.c.p.stack_len = p.stack_len
    /\ Accepted => Nested(stream, 1, <<>>, 0)

\* json_feed has refused the '}' that followed a value of an open Array
C31_Witness ==
    /\ ret.op = "feed" /\ ~ret.ok /\ p.error = "JSON_ERR_UNEXPECTED"
    /\ Len(stream) >= 3 /\ stream[Len(stream)] = "}"
    /\ p.error_pos = Len(stream) - 1
    /\ p.state = "PS_AFTER_VALUE"
    /\ p.stack_len >= 1 /\ nodes[stack[p.stack_len - 1]].type = "JSON_ARRAY"

(***************************************************************************)
(* C32. Nothing is skipped between a key and its colon.  In state          *)
(* ExpectColon the byte ':' clears the key flag and leads to Normal, and   *)
(* every other byte, whitespace included, makes json_feed return false     *)
(* with Unexpected and error_pos at that byte; a whitespace byte is passed *)
(* over (nothing changed but the position and the line count) in states    *)
(* Normal and AfterValue, and in no other state.                           *)
(***************************************************************************)
\* json_feed went over n bytes of the context c0 and changed nothing else
PassedOver(c0, r, n) ==
    /\ r.ok /\ r.pos = n
    /\ r.c = [c0 EXCEPT !.p.consumed = @ + n, !.p.buffer = r.c.p.buffer,
                        !.p.buf_len = n, !.p.line = r.c.p.line]

C32_ColonRightAfterKey ==
    p.error = "JSON_ERR_NONE" =>
        /\ p.state = "PS_EXPECT_COLON" =>
              \A ch \in Bytes :
                 LET r == json_feed(Here, <<ch>>, Len(stream)) IN
                 IF ch = ":"
                 THEN /\ r.ok /\ r.c.p.state = "PS_NORMAL"
                      /\ r.c.expecting_key[p.stack_len - 1] = 0
                 ELSE /\ ~r.ok /\ r.c.p.error = "JSON_ERR_UNEXPECTED"
                      /\ r.c.p.error_pos = p.consumed
                      /\ r.c.p.state = "PS_EXPECT_COLON"
        /\ \A ws \in {" ", "\t", "\n", "\r"} :
              PassedOver(Here, json_feed(Here, <<ws>>, Len(stream)), 1)
                 <=> p.state \in {"PS_NORMAL", "PS_AFTER_VALUE"}

\* json_feed has refused the space of {"a" :1} that follows the key
C32_Witness ==
    /\ ret.op = "feed" /\ ~ret.ok /\ p.error = "JSON_ERR_UNEXPECTED"
    /\ p.state = "PS_EXPECT_COLON"
    /\ stream = <<"{", "\"", "a", "\"", " ">>
    /\ p.error_pos = 4

(***************************************************************************)
(* C33. object_value visits the children of an Object pairwise: only the   *)
(* nodes at key positions are compared with the query, so a string that is *)
(* a value never counts as a match, and the node returned on a hit is the  *)
(* value of a pair of the Object, never a key node.                        *)
(***************************************************************************)
C33_PairwiseWalk ==
    (Looked /\ look.res # NULL) =>
        /\ look.res \in Direct(look.node)
        /\ Rank(look.node, look.res) % 2 = 1
        /\ StringBytes(look.res - 1) = look.key

(***************************************************************************)
(* C34. A successful parse holds exactly one top-level value: whenever     *)
(* json_finish returns true the subtree of the root node spans the whole   *)
(* arena (the root has no next sibling), so a stream with a comma at depth *)
(* 0 such as 1,2 or [],[] or 1, is never accepted.                         *)
(***************************************************************************)
\* the commas of s[k ..] outside strings and outside every container
RECURSIVE RootCommas(_, _, _, _)
RootCommas(s, k, depth, m) ==
    IF k > Len(s) THEN 0
    ELSE IF m = 2 THEN RootCommas(s, k + 1, depth, 1)
    ELSE IF m = 1 THEN RootCommas(s, k + 1, depth,
                                  IF s[k] = "\\" THEN 2 ELSE IF s[k] = "\"" THEN 0 ELSE 1)
    ELSE IF s[k] = "\"" THEN RootCommas(s, k + 1, depth, 1)
    ELSE IF s[k] \in {"{", "["} THEN RootCommas(s, k + 1, depth + 1, 0)
    ELSE IF s[k] \in {"}", "]"} THEN RootCommas(s, k + 1, depth - 1, 0)
    ELSE (IF s[k] = "," /\ depth = 0 THEN 1 ELSE 0) + RootCommas(s, k + 1, depth, 0)

C34_OneTopLevelValue ==
    Accepted =>
        /\ json_next_sibling(Here, 0) = NULL
        /\ SubtreeEnd(0) + 1 = p.nodes_len
        /\ RootCommas(stream, 1, 0, 0) = 0

(***************************************************************************)
(* C35. In every reachable state of a parser context, right after a        *)
(* Capacity error included, nodes_len <= nodes_cap and stack_len <=        *)
(* stack_cap, so that no index below nodes_len lies beyond the arena.      *)
(***************************************************************************)
C35_LensWithinCaps ==
    /\ p.nodes_len <= p.nodes_cap
    /\ p.stack_len <= p.stack_cap

(***************************************************************************)
(* C36. json_finish is idempotent: once it has returned true, json_finish  *)
(* called again with no json_feed in between returns true again and leaves *)
(* nodes_len and the node sequence unchanged, for every accepted document, *)
(* one whose root is a bare number included.                               *)
(***************************************************************************)
C36_FinishIdempotent ==
    [][(Accepted /\ ret'.op = "finish" /\ nfinish' = nfinish + 1) =>
          /\ ret'.ok
          /\ p'.nodes_len = p.nodes_len
          /\ nodes' = nodes]_vars

(***************************************************************************)
(* C37. The outcome of a rejected input does not depend on the chunking:   *)
(* when json_feed or the first json_finish has returned false, the error   *)
(* kind, error_pos, nodes_len and the nodes appended before the error are  *)
(* those of the same bytes fed as one chunk and finished.                  *)
(***************************************************************************)
C37_RejectionChunkInvariant ==
    (/\ ~ret.ok
     /\ \/ ret.op = "feed" /\ nfinish = 0
        \/ ret.op = "finish" /\ nfinish = 1) =>
        LET one == OneShot(stream, p.nodes_cap, p.stack_cap) IN
        /\ ~one.ok
        /\ p.error = one.c.p.error
        /\ p.error_pos = one.c.p.error_pos
        /\ p.nodes_len = one.c.p.nodes_len
        /\ \A i \in NodeIdx : nodes[i] = one.c.nodes[i]
        /\ p.stack_len = one.c.p.stack_len

\* a rejection at the second byte of a later chunk, nodes appended before it
C37_Witness ==
    /\ ret.op = "finish" /\ ~ret.ok /\ nfinish = 1
    /\ p.error = "JSON_ERR_UNEXPECTED"
    /\ p.consumed > 0 /\ p.error_pos = p.consumed + 1
    /\ p.nodes_len >= 2

(***************************************************************************)
(* C38. Whether a number token is accepted, and the node it produces,      *)
(* depends on the bytes of the token only: in every state where a value    *)
(* may start, whatever numbers were parsed before, json_feed of the token  *)
(* and a space (and, at depth 0, json_feed of the token then json_finish)  *)
(* gives the verdict, the error, the place of the error in the token and   *)
(* the node type and len that a freshly initialised parser gives.          *)
(***************************************************************************)
NumTokens ==
    { <<"2">>, <<"-">>, <<"-", "2">>, <<"2", ".">>, <<"2", ".", "5">>,
      <<"2", "e">>, <<"2", "e", "5">>, <<"2", "e", "+">>, <<"2", "e", "+", "5">>,
      <<"2", ".", "e", "5">>, <<"2", ".", "5", "e">>, <<"2", ".", "5", "e", "5">>,
      <<"-", ".", "5">>, <<"-", "e", "5">>, <<"2", ".", "e">> }

\* the outcome r of a call made in context c0 equals the outcome f of the
\* same call made by a fresh parser; base is where f's error_pos 0 lies
SameVerdict(c0, r, f, base) ==
    /\ r.ok = f.ok
    /\ r.c.p.error = f.c.p.error
    /\ r.c.p.error # "JSON_ERR_NONE" => r.c.p.error_pos = base + f.c.p.error_pos
    /\ r.c.p.nodes_len - c0.p.nodes_len = f.c.p.nodes_len
    /\ f.c.p.nodes_len = 1 =>
          /\ r.c.nodes[c0.p.nodes_len].type = f.c.nodes[0].type
          /\ r.c.nodes[c0.p.nodes_len].len = f.c.nodes[0].len
          /\ r.c.nodes[c0.p.nodes_len].offset = c0.p.consumed + f.c.nodes[0].offset

C38_NumberVerdictLocal ==
    (/\ p.error = "JSON_ERR_NONE" /\ p.state = "PS_NORMAL"
     /\ p.stack_len = 0 \/ expecting_key[p.stack_len - 1] = 0
     /\ p.nodes_len < p.nodes_cap) =>
        \A t \in NumTokens :
            LET fresh == InitCtx(p.nodes_cap, p.stack_cap) IN
            /\ SameVerdict(Here, json_feed(Here, t \o <<" ">>, Len(stream)),
                           json_feed(fresh, t \o <<" ">>, 0), p.consumed)
            /\ p.stack_len = 0 =>
                  LET r == json_feed(Here, t, Len(stream))
                      f == json_feed(fresh, t, 0)
                  IN  /\ SameVerdict(Here, r, f, p.consumed)
                      /\ r.ok => SameVerdict(Here, json_finish(r.c), json_finish(f.c),
                                             p.error_pos)

\* json_feed has refused 2e after 1e5 had set num_has_digit_after_exp
C38_Witness ==
    /\ ret.op = "feed" /\ ~ret.ok /\ p.error = "JSON_ERR_UNEXPECTED"
    /\ p.state = "PS_IN_NUMBER"
    /\ p.num_has_exp /\ p.num_has_digit_after_exp /\ p.num_ends_with_e
    /\ p.nodes_len >= 2 /\ nodes[p.nodes_len - 1].type = "JSON_NUMBER_FLOAT"

(***************************************************************************)
(* C39. Compact serialization is a fixed point after one round: for every  *)
(* accepted input x, the bytes s that json_serialize writes for the parse  *)
(* of x are accepted, and json_serialize writes s again, byte for byte,    *)
(* for the parse of s.                                                     *)
(***************************************************************************)
C39_SerializeFixedPoint ==
    (look.fn = "serialize" /\ nfinish = 1) =>
        LET s   == look.key
            two == OneShot(s, p.nodes_cap, p.stack_cap)
        IN  /\ two.ok
            /\ json_serialize(two.c, s).sb = s

(***************************************************************************)
(* C40. Key strings occur only inside objects: in every reachable state,   *)
(* when the state is ExpectColon, or InString with the key flag of the     *)
(* string set, then stack_len >= 1 and the innermost open container is an  *)
(* Object, so that expecting_key[stack_len - 1] is a slot in range; and    *)
(* the key flag of an innermost open Array is 0.                           *)
(***************************************************************************)
C40_KeysOnlyInObjects ==
    /\ (\/ p.state = "PS_EXPECT_COLON"
        \/ p.state = "PS_IN_STRING" /\ p.is_key_string) =>
          /\ p.stack_len >= 1 /\ p.stack_len <= p.stack_cap
          /\ nodes[stack[p.stack_len - 1]].type = "JSON_OBJECT"
    /\ (p.stack_len >= 1 /\ nodes[stack[p.stack_len - 1]].type = "JSON_ARRAY") =>
          expecting_key[p.stack_len - 1] = 0

\* the key of an Object that is an element of an Array has been read, after
\* a comma of that Array
C40_Witness ==
    /\ p.error = "JSON_ERR_NONE" /\ p.state = "PS_EXPECT_COLON"
    /\ p.stack_len >= 2
    /\ nodes[stack[p.stack_len - 2]].type = "JSON_ARRAY"
    /\ nodes[stack[p.stack_len - 2]].children >= 2
    /\ expecting_key[p.stack_len - 2] = 0 /\ expecting_key[p.stack_len - 1] = 1

====
